---- MODULE Spec2Model ----
(***************************************************************************)
(* FePilot node-dependency extension: package-manager detection, command   *)
(* construction and execution, package location, the registry cache, the   *)
(* dependency tree and the package search, modelled from                   *)
(*   src/apps/node-dependency/src/extension.ts                             *)
(*   src/apps/node-dependency/src/views/node-dependencies.ts               *)
(*   src/apps/node-dependency/src/services/npmApiService.ts                *)
(*                                                                         *)
(* Text whose characters the code inspects (split('@'), includes(...)) is  *)
(* a sequence of one-character strings; text that is only interpolated     *)
(* into a command line is a TLA+ string.                                   *)
(***************************************************************************)
EXTENDS Integers, Sequences, FiniteSets, TLC

VARIABLES
    \* ---- NpmQuickPickProvider.detectPackageManager (extension.ts) ----
    dManifest,      \* what <packageDir>/package.json is
    dLocks,         \* the lockfiles that exist in packageDir
    dPc,            \* "start" | "whichPnpm" | "whichYarn" | "done"
    dResult,        \* the value the promise resolved with, or "pending"
    dProbes,        \* the `which` probes run so far, with their outcome
    dPath,          \* the package managers that have an executable on PATH
    \* ---- NpmQuickPickProvider.buildInstallCommand / buildRemoveCommand ----
    cInput,         \* the arguments of the call
    cPc,            \* "start" | "install" | "remove"
    cInstall,       \* [main, command]: mainCommand and the returned string
    cRemove,        \* the string buildRemoveCommand returned
    \* ---- DepNodeProvider.getPackageJsonFromPath (node-dependencies.ts) ----
    lName,          \* moduleName: the dependency looked for
    lDir,           \* dir: element.workspaceDir, the starting directory
    workspaceRoot,  \* DepNodeProvider.workspaceRoot
    fsManifest,     \* directory -> what <directory>/package.json is
    lResolves,      \* what require.resolve + realpathSync yield here
    lPc,            \* "start" | "find" | "fetching" | "done" | "idle"
    lPkgDir,        \* pkgDir: the value resolvePackageDir returned
    lLog,           \* the probes, file accesses and registry accesses made
    lResult,        \* the value the promise resolved with
    \* ---- NpmApiService (npmApiService.ts) ----
    cache,          \* NpmApiService.cache: key -> entry
    now,            \* Date.now()
    notifications,  \* the warning, error and information messages shown
    rCalls,         \* the getPackageInfo calls made, in order of their start
    \* ---- the filesystem and the host, as the tree sees them ----
    fsDirs,         \* the directories <dir>/node_modules/<name> that exist
    activeFile,     \* vscode.window.activeTextEditor: its document's fsPath
    \* ---- DepNodeProvider as the tree's data provider ----
    tPc,            \* "stale": the host has to ask for the roots | "built"
    tRoots,         \* what getChildren() settled with, or Unbuilt
    tKids,          \* index of a root -> what getChildren(root) settled with
    tFired,         \* how often refresh() fired onDidChangeTreeData
    tOne,           \* the tree the host held after exactly one refresh
    \* ---- NodeDependenciesView: the document change listener ----
    vVisible,       \* this.view.visible
    lastActivePackageJson,
    vEvents,        \* the visibility and editor events delivered so far
    vResolutions,   \* the evaluations handleDocumentChange made
    \* ---- NpmQuickPickProvider.showPackageSearchStep (extension.ts) ----
    qValue,         \* quickPick.value
    qChanges,       \* how many onDidChangeValue events were delivered
    qItems,         \* quickPick.items
    qBusy,          \* quickPick.busy
    timers,         \* the host's timers made by setTimeout, by handle
    searchTimeout,  \* NpmQuickPickProvider.searchTimeout: a handle, or none
    searches,       \* the searchPackages calls made, in order of dispatch
    qErrors,        \* the error messages the search step has shown
    \* ---- removePackage, installPackage and executeWithTask ----
    fPc,            \* "idle" | "start" | "dialog" | "detect" | "types" | "task" | "done"
    flow,           \* the command run: its arguments and what it learnt
    task,           \* executeWithTask: the promise, listener, timer and process
    fNotices        \* the messages the flow has shown

detectVars == <<dManifest, dLocks, dPc, dResult, dProbes, dPath>>
commandVars == <<cInput, cPc, cInstall, cRemove>>
locateVars ==
    <<lName, lDir, workspaceRoot, fsManifest, lResolves, lPc, lPkgDir, lLog, lResult>>
registryVars == <<cache, now, notifications>>
treeVars == <<fsDirs, activeFile, tPc, tRoots, tKids, tFired, tOne>>
viewVars == <<vVisible, lastActivePackageJson, vEvents, vResolutions>>
searchVars ==
    <<qValue, qChanges, qItems, qBusy, timers, searchTimeout, searches, qErrors>>
flowVars == <<fPc, flow, task, fNotices>>
uiVars == <<searchVars, flowVars>>
vars ==
    <<detectVars, commandVars, locateVars, registryVars, rCalls, treeVars, viewVars,
      uiVars>>

\* what an operation of one component leaves alone
notDetectVars == <<commandVars, locateVars, registryVars, rCalls, treeVars, viewVars,
    uiVars>>
notCommandVars == <<detectVars, locateVars, registryVars, rCalls, treeVars, viewVars,
    uiVars>>
notLocateVars == <<detectVars, commandVars, rCalls, treeVars, viewVars,
    uiVars>>
notRegistryVars == <<detectVars, commandVars, locateVars, treeVars, viewVars,
    uiVars>>
notSearchVars ==
    <<detectVars, commandVars, locateVars, registryVars, rCalls, treeVars, viewVars,
      flowVars>>
notFlowVars ==
    <<detectVars, commandVars, locateVars, registryVars, rCalls, fsDirs, activeFile,
      viewVars, searchVars>>
notTreeVars == <<detectVars, commandVars, locateVars, cache, now, rCalls, uiVars>>

(***************************************************************************)
(* Bounds of the model.                                                    *)
(***************************************************************************)
\* longest text following the head of a packageManager value
MaxPMTail == 2

SeqsUpTo(S, n) == UNION {[1..k -> S] : k \in 0..n}

(***************************************************************************)
(* PackageManagerDetector: detectPackageManager, extension.ts 420-464      *)
(***************************************************************************)
PackageManager == {"npm", "pnpm", "yarn"}

Chars_npm == <<"n", "p", "m">>
Chars_pnpm == <<"p", "n", "p", "m">>
Chars_yarn == <<"y", "a", "r", "n">>
Chars_bun == <<"b", "u", "n">>

\* packageManager values found in manifests: a head followed by a short tail
PMHeads == {Chars_npm, Chars_pnpm, Chars_yarn, Chars_bun, <<"n", "p">>, <<>>}
PMTailChars == {"@", "8", "m"}
PMStrings == {h \o t : h \in PMHeads, t \in SeqsUpTo(PMTailChars, MaxPMTail)}

\* The value of the packageManager field of a parsed manifest object.
\*   missing          the object has no such key
\*   falsy            "", 0, false or null
\*   truthyNonString  a number, true, an array or an object
\*   string           a non-empty string
PMFieldValues ==
    {[t |-> "missing"], [t |-> "falsy"], [t |-> "truthyNonString"]}
        \cup {[t |-> "string", s |-> s] : s \in PMStrings \ {<<>>}}

\* What <packageDir>/package.json is.
\*   absent      fs.existsSync is false
\*   unreadable  it exists and fs.readFileSync throws (a directory, EACCES)
\*   malformed   JSON.parse throws
\*   jsonNull    the text is the JSON value null
\*   object      a JSON object (or any value whose properties can be read)
ManifestStates ==
    {[kind |-> "absent"], [kind |-> "unreadable"], [kind |-> "malformed"],
     [kind |-> "jsonNull"]}
        \cup {[kind |-> "object", packageManager |-> v] : v \in PMFieldValues}

LockFileNames == {"pnpm-lock.yaml", "yarn.lock", "package-lock.json"}

\* String.prototype.split('@')[0]: the text before the first '@', the whole
\* text when it holds none.
SplitAtHead(s) ==
    LET ats == {i \in 1..Len(s) : s[i] = "@"}
    IN  IF ats = {} THEN s
        ELSE SubSeq(s, 1, (CHOOSE i \in ats : \A j \in ats : i <= j) - 1)

\* a list of known managers that misses pnpm
KnownManager_NoPnpm(p) == p \in {Chars_npm, Chars_yarn}

\* ['npm', 'pnpm', 'yarn'].includes(packageManager), and the value returned
KnownManager(p) == p \in {Chars_npm, Chars_pnpm, Chars_yarn}
ManagerOfChars(p) ==
    IF p = Chars_pnpm THEN "pnpm" ELSE IF p = Chars_yarn THEN "yarn" ELSE "npm"

\* Step 1 (lines 423-432): a manager, "next" (fall through to the lockfiles)
\* or "throw" (an exception leaves the block).
ManifestStep(m) ==
    IF m.kind = "absent" THEN "next"
    ELSE IF m.kind \in {"unreadable", "malformed"} THEN "throw"
    ELSE IF m.kind = "jsonNull" THEN "throw"
    ELSE LET pm == m.packageManager
         IN  IF pm.t \in {"missing", "falsy"} THEN "next"
             ELSE IF pm.t = "truthyNonString" THEN "throw"
             ELSE IF KnownManager(SplitAtHead(pm.s))
                  THEN ManagerOfChars(SplitAtHead(pm.s))
                  ELSE "next"

\* the lockFiles array with package-lock.json checked before yarn.lock
lockFiles_NpmBeforeYarn ==
    << [file |-> "pnpm-lock.yaml", manager |-> "pnpm"],
       [file |-> "package-lock.json", manager |-> "npm"],
       [file |-> "yarn.lock", manager |-> "yarn"] >>

\* Step 2 (lines 435-445): the lockFiles array, scanned in order.
lockFiles ==
    << [file |-> "pnpm-lock.yaml", manager |-> "pnpm"],
       [file |-> "yarn.lock", manager |-> "yarn"],
       [file |-> "package-lock.json", manager |-> "npm"] >>

LockFileStep(locks) ==
    LET hits == {i \in 1..Len(lockFiles) : lockFiles[i].file \in locks}
    IN  IF hits = {} THEN "next"
        ELSE lockFiles[CHOOSE i \in hits : \A j \in hits : i <= j].manager

\* no outer catch: what was thrown leaves the call
OuterCatch_Rethrow(outcome) == outcome

\* The outer catch (lines 460-463): whatever was thrown, npm is returned.
OuterCatch(outcome) == IF outcome = "throw" THEN "npm" ELSE outcome

\* The synchronous part of the call, up to the first await.
DetectSync(m, locks) ==
    LET first == ManifestStep(m)
    IN  OuterCatch(IF first = "next" THEN LockFileStep(locks) ELSE first)

DetectInit ==
    /\ dManifest \in ManifestStates
    /\ dLocks \in SUBSET LockFileNames
    /\ dPc = "start"
    /\ dResult = "pending"
    /\ dProbes = <<>>
    /\ dPath \in SUBSET {"pnpm", "yarn"}

DetectIdle ==
    /\ dManifest = [kind |-> "absent"]
    /\ dLocks = {}
    /\ dPc = "done"
    /\ dResult = "npm"
    /\ dProbes = <<>>
    /\ dPath = {}

\* detectPackageManager is called: manifest, then lockfiles, then the first
\* probe is started.
DetectStart ==
    /\ dPc = "start"
    /\ LET r == DetectSync(dManifest, dLocks)
       IN  IF r = "next"
           THEN /\ dPc' = "whichPnpm"
                /\ dResult' = dResult
           ELSE /\ dPc' = "done"
                /\ dResult' = r
    /\ UNCHANGED <<dManifest, dLocks, dProbes, dPath>>
    /\ UNCHANGED notDetectVars

\* `which pnpm` settles (lines 448-451).
WhichPnpmSettles(ok) ==
    /\ dPc = "whichPnpm"
    /\ dProbes' = Append(dProbes, [cmd |-> "pnpm", ok |-> ok])
    /\ IF ok
       THEN /\ dPc' = "done"
            /\ dResult' = "pnpm"
       ELSE /\ dPc' = "whichYarn"
            /\ dResult' = dResult
    /\ UNCHANGED <<dManifest, dLocks, dPath>>
    /\ UNCHANGED notDetectVars

\* `which yarn` settles (lines 452-458).
WhichYarnSettles(ok) ==
    /\ dPc = "whichYarn"
    /\ dProbes' = Append(dProbes, [cmd |-> "yarn", ok |-> ok])
    /\ dPc' = "done"
    /\ dResult' = IF ok THEN "yarn" ELSE "npm"
    /\ UNCHANGED <<dManifest, dLocks, dPath>>
    /\ UNCHANGED notDetectVars

\* How `which <cmd>` can settle: it succeeds only for an executable on PATH,
\* and exec can fail in any case (no `which` on the host, spawn error).
WhichOutcomes(cmd) == IF cmd \in dPath THEN BOOLEAN ELSE {FALSE}

DetectNext ==
    \/ DetectStart
    \/ \E ok \in WhichOutcomes("pnpm") : WhichPnpmSettles(ok)
    \/ \E ok \in WhichOutcomes("yarn") : WhichYarnSettles(ok)

(***************************************************************************)
(* CommandBuilder: buildInstallCommand and buildRemoveCommand,             *)
(* extension.ts 469-582                                                    *)
(***************************************************************************)
PkgNames == {"lodash", "react", "@types/node"}
PkgVersions == {"4.17.21", "18.0.0"}
\* the install types handleInstallAction passes (extension.ts 246-256)
InstallTypes == {"", "--save-dev", "--save-peer"}

CommandInputs ==
    [packageManager : PackageManager,
     pkg : [name : PkgNames, version : PkgVersions],
     installType : InstallTypes,
     includeTypes : BOOLEAN,
     hasTypesPackage : BOOLEAN]

\* mainCommand with yarn's peer flag mistaken for its dev flag
MainInstallCommand_YarnPeerAsDev(packageManager, pkg, installType) ==
    LET packageSpec == pkg.name \o "@" \o pkg.version
    IN  CASE packageManager = "pnpm" ->
                IF installType = "--save-dev" THEN "pnpm add -D " \o packageSpec
                ELSE IF installType = "--save-peer" THEN "pnpm add -P " \o packageSpec
                ELSE "pnpm add " \o packageSpec
          [] packageManager = "yarn" ->
                IF installType = "--save-dev" THEN "yarn add -D " \o packageSpec
                ELSE IF installType = "--save-peer" THEN "yarn add -D " \o packageSpec
                ELSE "yarn add " \o packageSpec
          [] OTHER ->
                IF installType = "--save-dev"
                THEN "npm install --save-dev " \o packageSpec
                ELSE IF installType = "--save-peer"
                THEN "npm install --save-peer " \o packageSpec
                ELSE "npm install " \o packageSpec

\* mainCommand of buildInstallCommand (lines 475-509)
MainInstallCommand(packageManager, pkg, installType) ==
    LET packageSpec == pkg.name \o "@" \o pkg.version
    IN  CASE packageManager = "pnpm" ->
                IF installType = "--save-dev" THEN "pnpm add -D " \o packageSpec
                ELSE IF installType = "--save-peer" THEN "pnpm add -P " \o packageSpec
                ELSE "pnpm add " \o packageSpec
          [] packageManager = "yarn" ->
                IF installType = "--save-dev" THEN "yarn add -D " \o packageSpec
                ELSE IF installType = "--save-peer" THEN "yarn add -P " \o packageSpec
                ELSE "yarn add " \o packageSpec
          [] OTHER ->
                IF installType = "--save-dev"
                THEN "npm install --save-dev " \o packageSpec
                ELSE IF installType = "--save-peer"
                THEN "npm install --save-peer " \o packageSpec
                ELSE "npm install " \o packageSpec

\* typesCommand of buildInstallCommand (lines 516-529)
TypesInstallCommand(packageManager, pkg) ==
    LET typesPackage == "@types/" \o pkg.name
    IN  CASE packageManager = "pnpm" -> "pnpm add -D " \o typesPackage
          [] packageManager = "yarn" -> "yarn add -D " \o typesPackage
          [] OTHER -> "npm install --save-dev " \o typesPackage

\* buildInstallCommand without the peer exemption of line 512
BuildInstallCommand_TypesForPeer(packageManager, pkg, installType, includeTypes) ==
    LET mainCommand == MainInstallCommand(packageManager, pkg, installType)
    IN  IF ~includeTypes
        THEN mainCommand
        ELSE mainCommand \o " && " \o TypesInstallCommand(packageManager, pkg)

\* buildInstallCommand (lines 469-533)
BuildInstallCommand(packageManager, pkg, installType, includeTypes) ==
    LET mainCommand == MainInstallCommand(packageManager, pkg, installType)
    IN  IF ~includeTypes \/ installType = "--save-peer"
        THEN mainCommand
        ELSE mainCommand \o " && " \o TypesInstallCommand(packageManager, pkg)

\* buildRemoveCommand whose types step always uses npm
BuildRemoveCommand_NpmTypes(packageManager, packageName, hasTypesPackage) ==
    LET mainCommand ==
            CASE packageManager = "pnpm" -> "pnpm remove " \o packageName
              [] packageManager = "yarn" -> "yarn remove " \o packageName
              [] OTHER -> "npm uninstall " \o packageName
    IN  IF ~hasTypesPackage THEN mainCommand
        ELSE mainCommand \o " && " \o "npm uninstall @types/" \o packageName

\* buildRemoveCommand (lines 538-582)
BuildRemoveCommand(packageManager, packageName, hasTypesPackage) ==
    LET typesPackage == "@types/" \o packageName
        mainCommand ==
            CASE packageManager = "pnpm" -> "pnpm remove " \o packageName
              [] packageManager = "yarn" -> "yarn remove " \o packageName
              [] OTHER -> "npm uninstall " \o packageName
        typesCommand ==
            CASE packageManager = "pnpm" -> "pnpm remove " \o typesPackage
              [] packageManager = "yarn" -> "yarn remove " \o typesPackage
              [] OTHER -> "npm uninstall " \o typesPackage
    IN  IF ~hasTypesPackage THEN mainCommand
        ELSE mainCommand \o " && " \o typesCommand

CommandInit ==
    /\ cInput \in CommandInputs
    /\ cPc = "start"
    /\ cInstall = [main |-> "", command |-> ""]
    /\ cRemove = ""

CommandIdle ==
    /\ cInput = [packageManager |-> "npm"]
    /\ cPc = "idle"
    /\ cInstall = [main |-> "", command |-> ""]
    /\ cRemove = ""

\* buildInstallCommand is applied to the arguments
BuildInstall ==
    /\ cPc = "start"
    /\ cPc' = "install"
    /\ cInstall' =
         [main |-> MainInstallCommand(cInput.packageManager, cInput.pkg,
                                      cInput.installType),
          command |-> BuildInstallCommand(cInput.packageManager, cInput.pkg,
                                          cInput.installType, cInput.includeTypes)]
    /\ UNCHANGED <<cInput, cRemove>>
    /\ UNCHANGED notCommandVars

\* buildRemoveCommand is applied to the arguments
BuildRemove ==
    /\ cPc = "start"
    /\ cPc' = "remove"
    /\ cRemove' = BuildRemoveCommand(cInput.packageManager, cInput.pkg.name,
                                     cInput.hasTypesPackage)
    /\ UNCHANGED <<cInput, cInstall>>
    /\ UNCHANGED notCommandVars

CommandNext == BuildInstall \/ BuildRemove

(***************************************************************************)
(* Paths: a directory is the sequence of its segments, each a text; the    *)
(* filesystem root is <<>>.  A manifest is named by its directory.         *)
(***************************************************************************)
Seg_ws == <<"w", "s">>
Seg_p == <<"p">>
Seg_dist == <<"d", "i", "s", "t">>
Seg_node_modules == <<"n", "o", "d", "e", "_", "m", "o", "d", "u", "l", "e", "s">>
Str_types == <<"@", "t", "y", "p", "e", "s", "/">>

\* path.resolve(dir, '..'): the parent directory, the root being its own
Parent(dir) == IF dir = <<>> THEN <<>> ELSE SubSeq(dir, 1, Len(dir) - 1)

\* the segments of a text between its '/' characters, empty ones dropped, as
\* path.resolve and path.join normalise them
RECURSIVE SplitSlash(_)
SplitSlash(s) ==
    LET slashes == {i \in 1..Len(s) : s[i] = "/"}
    IN  IF s = <<>> THEN <<>>
        ELSE IF slashes = {} THEN <<s>>
        ELSE LET k == CHOOSE i \in slashes : \A j \in slashes : i <= j
             IN  (IF k = 1 THEN <<>> ELSE <<SubSeq(s, 1, k - 1)>>)
                    \o SplitSlash(SubSeq(s, k + 1, Len(s)))

\* String.prototype.includes
Includes(s, sub) ==
    \E i \in 1..(Len(s) - Len(sub) + 1) : SubSeq(s, i, i + Len(sub) - 1) = sub

\* String.prototype.startsWith
StartsWith(s, prefix) ==
    Len(s) >= Len(prefix) /\ SubSeq(s, 1, Len(prefix)) = prefix

(***************************************************************************)
(* RegistryClient: NpmApiService.getPackageInfo, npmApiService.ts 108-158  *)
(***************************************************************************)
\* CACHE_DURATION, in milliseconds
CACHE_DURATION == 3600000

NoVersion == <<>>
NoEntry == [present |-> FALSE]

\* cacheKey (line 121)
CacheKey(packageName, version) ==
    IF version = NoVersion THEN packageName ELSE packageName \o <<"@">> \o version

\* the data a successful registry response carries
RegistryData(packageName) == [source |-> "registry", path |-> <<>>, name |-> packageName]

Null == [source |-> "null", path |-> <<>>, name |-> <<>>]
Pending == [source |-> "pending", path |-> <<>>, name |-> <<>>]

\* the cache test of lines 124-125
CacheFresh_Inclusive(c, key, t) ==
    /\ key \in DOMAIN c
    /\ c[key].present
    /\ t - c[key].timestamp <= CACHE_DURATION

CacheFresh(c, key, t) ==
    /\ key \in DOMAIN c
    /\ c[key].present
    /\ t - c[key].timestamp < CACHE_DURATION

\* How the request of line 136 can end: a 2xx response with a JSON body, a
\* 404, another status, a rejected fetch, a body that is not JSON.
FetchOutcomes == {"ok", "notFound", "httpError", "networkError", "badJson"}

\* the value getPackageInfo resolves with once the request ended (137-157)
FetchValue(packageName, outcome) ==
    IF outcome = "ok" THEN RegistryData(packageName) ELSE Null

\* the cache after the request ended (line 150)
FetchCache_EvictsOnFailure(c, key, packageName, outcome, t) ==
    IF outcome = "ok"
    THEN [k \in DOMAIN c \cup {key} |->
            IF k = key
            THEN [present |-> TRUE, data |-> RegistryData(packageName), timestamp |-> t]
            ELSE c[k]]
    ELSE [k \in DOMAIN c |-> IF k = key THEN NoEntry ELSE c[k]]

FetchCache(c, key, packageName, outcome, t) ==
    IF outcome = "ok"
    THEN [k \in DOMAIN c \cup {key} |->
            IF k = key
            THEN [present |-> TRUE, data |-> RegistryData(packageName), timestamp |-> t]
            ELSE c[k]]
    ELSE c

\* the notification shown once the request ended (lines 139-141, 155)
FetchNotifications(n, outcome) ==
    IF outcome = "ok" THEN n
    ELSE IF outcome = "notFound" THEN Append(n, "warning")
    ELSE Append(n, "error")

(***************************************************************************)
(* PackageLocator: getPackageJsonFromPath, findPackageJson and             *)
(* resolvePackageDir, node-dependencies.ts 992-1105                        *)
(***************************************************************************)
WorkspaceRootDir == <<Seg_ws>>

\* dependency names read from manifests
LocateNames ==
    { <<"n">>,
      Str_types \o <<"n">>,
      <<"@", "t", "y", "p", "e", "s", "n">>,
      <<"a">> \o Str_types \o <<"n">>,
      <<"@", "b", "/", "n">> }

Chars_other == <<"o">>

\* element.workspaceDir: the directory of the manifest declaring the node
StartDirs == {WorkspaceRootDir, WorkspaceRootDir \o <<Seg_p>>}

\* path.resolve(workspaceRoot, 'node_modules', moduleName) (lines 1061-1066)
RootNodeModulesPath(root, moduleName) ==
    root \o <<Seg_node_modules>> \o SplitSlash(moduleName)

\* Where require.resolve + dirname + realpathSync can lead (lines 1098-1099):
\* the hoisted package directory, a build-output directory below it, and the
\* filesystem root; or one of the two calls throws.
ResolveOutcomes(moduleName) ==
    {[ok |-> FALSE, dir |-> <<>>]}
        \cup {[ok |-> TRUE, dir |-> d] :
                d \in {RootNodeModulesPath(WorkspaceRootDir, moduleName),
                       RootNodeModulesPath(WorkspaceRootDir, moduleName) \o <<Seg_dist>>,
                       <<>>}}

\* What <directory>/package.json is.
\*   absent  fs.accessSync throws
\*   broken  it exists and readFileAsJson returns null (unreadable, not JSON,
\*           or a falsy JSON value)
\*   json    it parses; name is its name field, <<>> when it has none
ManifestContents(moduleName) ==
    {[kind |-> "absent", name |-> <<>>], [kind |-> "broken", name |-> <<>>]}
        \cup {[kind |-> "json", name |-> n] : n \in {moduleName, Chars_other, <<>>}}

\* the directories whose manifest a call can look at
RelevantDirs(moduleName, dir, outcome) ==
    {dir, Parent(dir), RootNodeModulesPath(WorkspaceRootDir, moduleName)}
        \cup (IF outcome.ok THEN {outcome.dir, Parent(outcome.dir)} ELSE {})

\* pathExists(path.join(dir, 'package.json')) (lines 1257-1265)
PathExists(dir) == fsManifest[dir].kind # "absent"

\* readFileAsJson (lines 992-1004)
ReadFileAsJson(dir) ==
    IF fsManifest[dir].kind = "json"
    THEN [source |-> "file", path |-> dir, name |-> fsManifest[dir].name]
    ELSE Null

LogExists(dir) == [op |-> "exists", at |-> dir]
LogRead(dir) == [op |-> "read", at |-> dir]
LogProbe(dir) == [op |-> "probe", at |-> dir]
LogCache(key) == [op |-> "cache", at |-> <<key>>]
LogFetch(packageName) == [op |-> "fetch", at |-> <<packageName>>]

\* the accesses made by one `if (pathExists(p)) { readFileAsJson(p) ... }`
Inspect(dir) ==
    IF PathExists(dir) THEN <<LogExists(dir), LogRead(dir)>> ELSE <<LogExists(dir)>>

\* a name test that accepts any manifest that parses
NameMatches_AnyName(packageInfo, moduleName) == packageInfo.source # "null"

\* packageInfo && packageInfo.name === moduleName (lines 1045, 1054)
NameMatches(packageInfo, moduleName) ==
    packageInfo.source # "null" /\ packageInfo.name = moduleName

\* the guard of resolvePackageDir (line 1084)
SkipsProbe(moduleName) == Includes(moduleName, Str_types)

\* resolvePackageDir (lines 1081-1105): [found, dir, log]
ResolvePackageDir(moduleName, dir) ==
    IF SkipsProbe(moduleName)
    THEN [found |-> FALSE, dir |-> <<>>, log |-> <<>>]
    ELSE IF lResolves.ok
         THEN [found |-> TRUE, dir |-> lResolves.dir, log |-> <<LogProbe(dir)>>]
         ELSE [found |-> FALSE, dir |-> <<>>, log |-> <<LogProbe(dir)>>]

\* the local part of findPackageJson that never looks at
\* <workspaceRoot>/node_modules
FindLocal_NoRootFallback(moduleName, startDir) ==
    LET up == Parent(startDir)
        first == IF PathExists(startDir) THEN ReadFileAsJson(startDir) ELSE Null
        second == IF PathExists(up) THEN ReadFileAsJson(up) ELSE Null
    IN  IF PathExists(startDir) /\ NameMatches(first, moduleName)
        THEN [done |-> TRUE, value |-> first, log |-> Inspect(startDir)]
        ELSE IF PathExists(up) /\ NameMatches(second, moduleName)
        THEN [done |-> TRUE, value |-> second,
              log |-> Inspect(startDir) \o Inspect(up)]
        ELSE [done |-> FALSE, value |-> Null,
              log |-> Inspect(startDir) \o Inspect(up)]

\* the local part of findPackageJson (lines 1041-1072): [done, value, log];
\* done is FALSE when the code goes on to the registry
FindLocal(moduleName, startDir) ==
    LET up == Parent(startDir)
        rootNodeModulesPath == RootNodeModulesPath(workspaceRoot.dir, moduleName)
        first == IF PathExists(startDir) THEN ReadFileAsJson(startDir) ELSE Null
        second == IF PathExists(up) THEN ReadFileAsJson(up) ELSE Null
    IN  IF PathExists(startDir) /\ NameMatches(first, moduleName)
        THEN [done |-> TRUE, value |-> first, log |-> Inspect(startDir)]
        ELSE IF PathExists(up) /\ NameMatches(second, moduleName)
        THEN [done |-> TRUE, value |-> second,
              log |-> Inspect(startDir) \o Inspect(up)]
        ELSE IF workspaceRoot.defined /\ PathExists(rootNodeModulesPath)
        THEN [done |-> TRUE, value |-> ReadFileAsJson(rootNodeModulesPath),
              log |-> Inspect(startDir) \o Inspect(up) \o Inspect(rootNodeModulesPath)]
        ELSE [done |-> FALSE, value |-> Null,
              log |-> Inspect(startDir) \o Inspect(up)
                        \o (IF workspaceRoot.defined
                            THEN Inspect(rootNodeModulesPath) ELSE <<>>)]

\* the entries the cache holds when a call starts: none, one stored less
\* than CACHE_DURATION ago, one stored exactly CACHE_DURATION ago
InitialCaches(key, t) ==
    {[k \in {key} |-> NoEntry]}
        \cup {[k \in {key} |->
                [present |-> TRUE, data |-> RegistryData(key), timestamp |-> ts]] :
                ts \in {t - CACHE_DURATION + 1, t - CACHE_DURATION}}

LocateInit ==
    /\ lName \in LocateNames
    /\ lDir \in StartDirs
    /\ workspaceRoot = [defined |-> TRUE, dir |-> WorkspaceRootDir]
    /\ lResolves \in ResolveOutcomes(lName)
    /\ fsManifest \in [RelevantDirs(lName, lDir, lResolves) -> ManifestContents(lName)]
    /\ lPc = "start"
    /\ lPkgDir = [found |-> FALSE, dir |-> <<>>]
    /\ lLog = <<>>
    /\ lResult = Pending
    /\ now = 2 * CACHE_DURATION
    /\ cache \in InitialCaches(CacheKey(lName, NoVersion), now)
    /\ notifications = <<>>

LocateIdle ==
    /\ lName = <<"n">>
    /\ lDir = WorkspaceRootDir
    /\ workspaceRoot = [defined |-> TRUE, dir |-> WorkspaceRootDir]
    /\ lResolves = [ok |-> FALSE, dir |-> <<>>]
    /\ fsManifest = [d \in {WorkspaceRootDir} |-> [kind |-> "absent", name |-> <<>>]]
    /\ lPc = "idle"
    /\ lPkgDir = [found |-> FALSE, dir |-> <<>>]
    /\ lLog = <<>>
    /\ lResult = Pending
    /\ now = 2 * CACHE_DURATION
    /\ cache = [k \in {<<"n">>} |-> NoEntry]
    /\ notifications = <<>>

\* getPackageJsonFromPath awaits resolvePackageDir (lines 1019-1021)
LocateResolve ==
    /\ lPc = "start"
    /\ LET r == ResolvePackageDir(lName, lDir)
       IN  /\ lPkgDir' = [found |-> r.found, dir |-> r.dir]
           /\ lLog' = lLog \o r.log
    /\ lPc' = "find"
    /\ UNCHANGED <<lName, lDir, workspaceRoot, fsManifest, lResolves, lResult>>
    /\ UNCHANGED registryVars
    /\ UNCHANGED notLocateVars

\* findPackageJson from pkgDir, or from dir when pkgDir is null (lines
\* 1023-1027, 1037-1079), up to the await of the registry request
LocateFind ==
    /\ lPc = "find"
    /\ LET startDir == IF lPkgDir.found THEN lPkgDir.dir ELSE lDir
           r == FindLocal(lName, startDir)
           key == CacheKey(lName, NoVersion)
       IN  IF r.done
           THEN /\ lPc' = "done"
                /\ lResult' = r.value
                /\ lLog' = lLog \o r.log
           ELSE IF CacheFresh(cache, key, now)
           THEN /\ lPc' = "done"
                /\ lResult' = cache[key].data
                /\ lLog' = lLog \o r.log \o <<LogCache(key)>>
           ELSE /\ lPc' = "fetching"
                /\ lResult' = lResult
                /\ lLog' = lLog \o r.log \o <<LogCache(key), LogFetch(lName)>>
    /\ UNCHANGED <<lName, lDir, workspaceRoot, fsManifest, lResolves, lPkgDir>>
    /\ UNCHANGED registryVars
    /\ UNCHANGED notLocateVars

\* the registry request ends and getPackageInfo resolves (lines 137-157)
LocateFetchSettles(outcome) ==
    /\ lPc = "fetching"
    /\ lPc' = "done"
    /\ lResult' = FetchValue(lName, outcome)
    /\ cache' = FetchCache(cache, CacheKey(lName, NoVersion), lName, outcome, now)
    /\ notifications' = FetchNotifications(notifications, outcome)
    /\ UNCHANGED <<lName, lDir, workspaceRoot, fsManifest, lResolves, lPkgDir, lLog, now>>
    /\ UNCHANGED notLocateVars

LocateNext ==
    \/ LocateResolve
    \/ LocateFind
    \/ \E outcome \in FetchOutcomes : LocateFetchSettles(outcome)

(***************************************************************************)
(* Relevant manifest: getActivePackageJsonPath, findPackageJsonUpward and  *)
(* getRelevantPackageJsonPath, node-dependencies.ts 1165-1234              *)
(***************************************************************************)
Seg_h == <<"h">>
Seg_src == <<"s", "r", "c">>
Seg_wsx == <<"w", "s", "x">>

\* the workspace folder the tree is opened on, and the directories around it
TreeRootDir == <<Seg_h, Seg_ws>>
SubPackageDir == TreeRootDir \o <<Seg_p>>
SiblingDir == <<Seg_h, Seg_wsx>>

\* process.cwd() of the extension host, which a relative path resolves from
Cwd == <<>>

\* a directory as the text the code compares: '/' before every segment, the
\* filesystem root being "/"
RECURSIVE PathString(_)
PathString(dir) ==
    IF dir = <<>> THEN <<"/">>
    ELSE IF Len(dir) = 1 THEN <<"/">> \o dir[1]
    ELSE PathString(Parent(dir)) \o <<"/">> \o dir[Len(dir)]

\* document.uri.fsPath of a file: path.dirname of it is file.dir
FileString(file) ==
    (IF file.dir = <<>> THEN <<>> ELSE PathString(file.dir)) \o <<"/">> \o file.name

NoFile == [open |-> FALSE, dir |-> <<>>, name |-> <<>>]
FileIn(dir) == [open |-> TRUE, dir |-> dir, name |-> <<"f">>]

\* the result of a search: the manifest found, named by its directory, and
\* the directories whose package.json was tested with pathExists, in order
NoManifest(examined) == [found |-> FALSE, dir |-> <<>>, examined |-> examined]
ManifestAt(dir, examined) == [found |-> TRUE, dir |-> dir, examined |-> examined]

\* the loop of lines 1193-1202 and the check of the workspace root after it
\* (lines 1204-1208)
RECURSIVE WalkUp_WholeAncestry(_, _)
WalkUp_WholeAncestry(currentDir, examined) ==
    IF currentDir # Parent(currentDir)
    THEN IF PathExists(currentDir)
         THEN ManifestAt(currentDir, Append(examined, currentDir))
         ELSE WalkUp_WholeAncestry(Parent(currentDir), Append(examined, currentDir))
    ELSE IF PathExists(workspaceRoot.dir)
         THEN ManifestAt(workspaceRoot.dir, Append(examined, workspaceRoot.dir))
         ELSE NoManifest(Append(examined, workspaceRoot.dir))

RECURSIVE WalkUp(_, _)
WalkUp(currentDir, examined) ==
    IF /\ currentDir # Parent(currentDir)
       /\ StartsWith(PathString(currentDir), PathString(workspaceRoot.dir))
    THEN IF PathExists(currentDir)
         THEN ManifestAt(currentDir, Append(examined, currentDir))
         ELSE WalkUp(Parent(currentDir), Append(examined, currentDir))
    ELSE IF PathExists(workspaceRoot.dir)
         THEN ManifestAt(workspaceRoot.dir, Append(examined, workspaceRoot.dir))
         ELSE NoManifest(Append(examined, workspaceRoot.dir))

\* findPackageJsonUpward (lines 1180-1211)
FindPackageJsonUpward(startPath) ==
    IF ~workspaceRoot.defined THEN NoManifest(<<>>)
    ELSE IF ~StartsWith(FileString(startPath), PathString(workspaceRoot.dir))
    THEN NoManifest(<<>>)
    ELSE WalkUp(startPath.dir, <<>>)

\* getActivePackageJsonPath (lines 1165-1173)
GetActivePackageJsonPath(activeEditor) ==
    IF ~activeEditor.open THEN NoManifest(<<>>) ELSE FindPackageJsonUpward(activeEditor)

\* getRelevantPackageJsonPath (lines 1217-1234); path.join(workspaceRoot || '',
\* 'package.json') is relative to the working directory without a workspace
GetRelevantPackageJsonPath(activeEditor) ==
    LET activePackageJson == GetActivePackageJsonPath(activeEditor)
        rootDir == IF workspaceRoot.defined THEN workspaceRoot.dir ELSE Cwd
        examined == Append(activePackageJson.examined, rootDir)
    IN  IF activePackageJson.found THEN activePackageJson
        ELSE IF PathExists(rootDir) THEN ManifestAt(rootDir, examined)
        ELSE NoManifest(examined)

(***************************************************************************)
(* DependencyTreeModel: DepNodeProvider.refresh, getChildren and           *)
(* getDepsInPackageJson, node-dependencies.ts 802-804 and 909-991          *)
(***************************************************************************)
\* most entries a manifest's three dependency groups hold together
MaxEntries == 3
\* most refresh() calls of a run
MaxRefreshes == 3

\* the keys and values the entries of a dependency group are written with
DepKeys == {<<"b">>, <<"a">>, <<"2">>, <<"1", "0">>}
DepEntries ==
    {[key |-> <<"b">>, value |-> "^1"], [key |-> <<"b">>, value |-> "^2"],
     [key |-> <<"a">>, value |-> "^2"], [key |-> <<"2">>, value |-> "^1"],
     [key |-> <<"1", "0">>, value |-> "^2"]}

\* A dependency group as the manifest's text has it: absent, or an object
\* whose entries are written in this order.
NoGroup == [present |-> FALSE, entries |-> <<>>]
GroupsOfLen(l) ==
    {[present |-> TRUE, entries |-> e] : e \in [1..l -> DepEntries]}
        \cup (IF l = 0 THEN {NoGroup} ELSE {})

JsonManifest(peer, deps, dev) ==
    [kind |-> "json", name |-> <<>>,
     peerDependencies |-> peer, dependencies |-> deps, devDependencies |-> dev]

\* the manifests that parse, with at most n entries in all
JsonManifests(n) ==
    UNION {UNION {UNION {
        {JsonManifest(peer, deps, dev) :
            peer \in GroupsOfLen(l1), deps \in GroupsOfLen(l2), dev \in GroupsOfLen(l3)} :
        l3 \in 0..(n - l1 - l2)} : l2 \in 0..(n - l1)} : l1 \in 0..n}

AbsentManifest == [kind |-> "absent", name |-> <<>>]
\* unreadable, or not JSON, or the JSON value null: line 937 throws
BrokenManifest == [kind |-> "broken", name |-> <<>>]

\* pathExists(path.join(workspaceRoot, 'node_modules', moduleName)) (line 945)
DirExists(dir) == dir \in fsDirs

Digits == <<"0", "1", "2", "3", "4", "5", "6", "7", "8", "9">>
IsDigit(c) == \E d \in 1..10 : Digits[d] = c
DigitValue(c) == (CHOOSE d \in 1..10 : Digits[d] = c) - 1

\* a < b for canonical decimal texts: the shorter is the smaller, and texts
\* of one length compare digit by digit
NumberBelow(a, b) ==
    \/ Len(a) < Len(b)
    \/ /\ Len(a) = Len(b)
       /\ \E i \in 1..Len(a) :
            /\ SubSeq(a, 1, i - 1) = SubSeq(b, 1, i - 1)
            /\ DigitValue(a[i]) < DigitValue(b[i])

\* 2^32 - 1, the first integer that is not an array index
NotAnIndex == <<"4", "2", "9", "4", "9", "6", "7", "2", "9", "5">>

\* a property key that is an array index: the canonical decimal text of an
\* integer below 2^32 - 1
IsArrayIndex(key) ==
    /\ key # <<>>
    /\ \A i \in 1..Len(key) : IsDigit(key[i])
    /\ Len(key) = 1 \/ key[1] # "0"
    /\ NumberBelow(key, NotAnIndex)

\* where JSON.parse first meets a key, and the value it keeps for it
FirstAt(entries, key) ==
    CHOOSE i \in 1..Len(entries) :
        entries[i].key = key /\ \A j \in 1..(i - 1) : entries[j].key # key
ParsedValue(entries, key) ==
    LET last == CHOOSE i \in 1..Len(entries) :
                    entries[i].key = key /\ \A j \in (i + 1)..Len(entries) : entries[j].key # key
    IN  entries[last].value

\* the order of Object.keys: array indices ascending, then the other keys
\* in the order of their creation
KeyBefore_AsWritten(k1, k2, entries) == FirstAt(entries, k1) < FirstAt(entries, k2)

KeyBefore(k1, k2, entries) ==
    IF IsArrayIndex(k1) /\ IsArrayIndex(k2) THEN NumberBelow(k1, k2)
    ELSE IF IsArrayIndex(k1) THEN TRUE
    ELSE IF IsArrayIndex(k2) THEN FALSE
    ELSE FirstAt(entries, k1) < FirstAt(entries, k2)

RECURSIVE KeysInOrder(_, _)
KeysInOrder(keys, entries) ==
    IF keys = {} THEN <<>>
    ELSE LET first == CHOOSE k \in keys : \A j \in keys \ {k} : KeyBefore(k, j, entries)
         IN  <<first>> \o KeysInOrder(keys \ {first}, entries)

\* Object.keys(JSON.parse(text).<group>) (lines 965, 972, 979)
ObjectKeys(entries) == KeysInOrder({entries[i].key : i \in 1..Len(entries)}, entries)

\* toDep (lines 939-961)
ToDep(moduleName, version, type, workspaceDir) ==
    [collapsibleState |->
        IF DirExists(RootNodeModulesPath(workspaceRoot.dir, moduleName))
        THEN "Collapsed" ELSE "None",
     label |-> moduleName, version |-> version, type |-> type,
     workspaceDir |-> workspaceDir]

\* one group of lines 963-984
GroupNodes(group, type, workspaceDir) ==
    IF ~group.present THEN <<>>
    ELSE LET keys == ObjectKeys(group.entries)
         IN  [i \in 1..Len(keys) |->
                ToDep(keys[i], ParsedValue(group.entries, keys[i]), type, workspaceDir)]

\* what a call of getChildren settles with
Resolved(nodes, info) == [ok |-> TRUE, nodes |-> nodes, info |-> info]
Rejected == [ok |-> FALSE, nodes |-> <<>>, info |-> <<>>]

\* the nodes of a manifest that parsed (lines 963-986)
ManifestNodes(packageJson, workspaceDir) ==
    GroupNodes(packageJson.peerDependencies, "peer", workspaceDir)
        \o GroupNodes(packageJson.dependencies, "dep", workspaceDir)
        \o GroupNodes(packageJson.devDependencies, "dev", workspaceDir)

\* getDepsInPackageJson (lines 934-990); the manifest is named by its
\* directory, which is path.dirname(packageJsonPath)
GetDepsInPackageJson_StaleAfterRefresh(dir) ==
    IF PathExists(dir) /\ workspaceRoot.defined
    THEN IF fsManifest[dir].kind = "broken" THEN Rejected
         ELSE IF tFired >= 2 THEN Resolved(<<>>, <<>>)
         ELSE Resolved(ManifestNodes(fsManifest[dir], dir), <<>>)
    ELSE Resolved(<<>>, <<>>)

GetDepsInPackageJson(dir) ==
    IF PathExists(dir) /\ workspaceRoot.defined
    THEN IF fsManifest[dir].kind = "broken" THEN Rejected
         ELSE Resolved(ManifestNodes(fsManifest[dir], dir), <<>>)
    ELSE Resolved(<<>>, <<>>)

\* getChildren() is called without element for the roots
NoElement == [label |-> <<>>, root |-> TRUE]

\* getChildren (lines 909-929)
GetChildren(element) ==
    IF ~workspaceRoot.defined THEN Resolved(<<>>, <<"info">>)
    ELSE IF element # NoElement
    THEN GetDepsInPackageJson(RootNodeModulesPath(workspaceRoot.dir, element.label))
    ELSE LET packageJsonPath == GetRelevantPackageJsonPath(activeFile)
         IN  IF packageJsonPath.found
             THEN GetDepsInPackageJson(packageJsonPath.dir)
             ELSE Resolved(<<>>, <<"info">>)

\* What the host holds for the roots; after counts the change events fired
\* since the roots were last asked for, which the next build answers.
Unbuilt(after) == [ok |-> FALSE, nodes |-> <<>>, built |-> FALSE, after |-> after]
Settled(r, after) == [ok |-> r.ok, nodes |-> r.nodes, built |-> TRUE, after |-> after]
NoTree == [held |-> FALSE]

\* refresh (lines 802-804): onDidChangeTreeData fires without an element, so
\* the host drops the elements it holds and asks for the roots again
ProviderRefresh ==
    /\ tPc' = "stale"
    /\ tRoots' = Unbuilt(IF tPc = "stale" THEN tRoots.after + 1 ELSE 1)
    /\ tKids' = <<>>
    /\ tFired' = tFired + 1
    /\ tOne' = IF tPc = "built" /\ tRoots.after = 1
               THEN [held |-> TRUE, roots |-> tRoots, kids |-> tKids]
               ELSE tOne

\* the host asks for the roots: getChildren()
GetRoots ==
    /\ tPc = "stale"
    /\ LET r == GetChildren(NoElement)
       IN  /\ tRoots' = Settled(r, tRoots.after)
           /\ notifications' = notifications \o r.info
    /\ tPc' = "built"
    /\ tKids' = <<>>
    /\ UNCHANGED <<fsDirs, activeFile, tFired, tOne>>
    /\ UNCHANGED viewVars
    /\ UNCHANGED notTreeVars

\* the user expands a collapsed root: getChildren(element)
Expand(i) ==
    /\ tPc = "built"
    /\ i \in 1..Len(tRoots.nodes)
    /\ i \notin DOMAIN tKids
    /\ tRoots.nodes[i].collapsibleState = "Collapsed"
    /\ LET r == GetChildren(tRoots.nodes[i])
       IN  /\ tKids' = [j \in DOMAIN tKids \cup {i} |->
                            IF j = i THEN Settled(r, 0) ELSE tKids[j]]
           /\ notifications' = notifications \o r.info
    /\ UNCHANGED <<fsDirs, activeFile, tPc, tRoots, tFired, tOne>>
    /\ UNCHANGED viewVars
    /\ UNCHANGED notTreeVars

\* the command nodeDependencies.refreshEntry (lines 42-47)
RefreshEntry ==
    /\ tFired < MaxRefreshes
    /\ ProviderRefresh
    /\ UNCHANGED <<fsDirs, activeFile, notifications>>
    /\ UNCHANGED viewVars
    /\ UNCHANGED notTreeVars

TreeNext ==
    \/ GetRoots
    \/ \E i \in 1..Len(tRoots.nodes) : Expand(i)
    \/ RefreshEntry

\* building without refreshing
BuildNext ==
    \/ GetRoots
    \/ \E i \in 1..Len(tRoots.nodes) : Expand(i)

(***************************************************************************)
(* The tree's filesystem at construction                                   *)
(***************************************************************************)
Key_a == <<"a">>
Key_b == <<"b">>

\* <dir>/node_modules/<name> for the packages and names of the model
InstalledDirs(names) ==
    {RootNodeModulesPath(d, k) : d \in {TreeRootDir, SubPackageDir}, k \in names}

\* every directory a pathExists of the tree or of the view can name
TreeFsDomain ==
    {<<>>, <<Seg_h>>, TreeRootDir, TreeRootDir \o <<Seg_src>>, SubPackageDir,
     SubPackageDir \o <<Seg_src>>, SiblingDir}
        \cup InstalledDirs(DepKeys)

OneEntry(key, value) == [present |-> TRUE, entries |-> <<[key |-> key, value |-> value]>>]

\* manifests of the workspace's packages
PackageManifests ==
    {JsonManifest(NoGroup, OneEntry(Key_a, "^1"), NoGroup),
     JsonManifest(NoGroup, OneEntry(Key_a, "^1"), OneEntry(Key_b, "^2"))}

\* manifests of installed copies
InstalledManifests ==
    {JsonManifest(NoGroup, OneEntry(Key_b, "^1"), NoGroup),
     JsonManifest(OneEntry(Key_b, "^2"), NoGroup, NoGroup)}

\* a directory <dir>/node_modules/<name>: missing, or there with or without
\* a manifest
InstallStates(manifests) ==
    {[exists |-> FALSE, manifest |-> AbsentManifest]}
        \cup {[exists |-> TRUE, manifest |-> m] :
                m \in {AbsentManifest, BrokenManifest} \cup manifests}

\* lastActivePackageJson: null, or the path remembered
NoPath == [set |-> FALSE, dir |-> <<>>]
PathOf(found) == [set |-> TRUE, dir |-> found.dir]

TreeIsStale ==
    /\ tPc = "stale"
    /\ tRoots = Unbuilt(0)
    /\ tKids = <<>>
    /\ tFired = 0
    /\ tOne = NoTree

ViewIdle ==
    /\ vVisible = FALSE
    /\ lastActivePackageJson = NoPath
    /\ vEvents = 0
    /\ vResolutions = <<>>

RegistryIdle == rCalls = <<>>

\* no getPackageJsonFromPath call is under way
LocateCallIdle ==
    /\ lName = <<"n">>
    /\ lDir = WorkspaceRootDir
    /\ lResolves = [ok |-> FALSE, dir |-> <<>>]
    /\ lPc = "idle"
    /\ lPkgDir = [found |-> FALSE, dir |-> <<>>]
    /\ lLog = <<>>
    /\ lResult = Pending

\* the registry client right after the extension host started
RegistryStart ==
    /\ now = 2 * CACHE_DURATION
    /\ cache = <<>>
    /\ notifications = <<>>

\* a workspace without files
EmptyWorkspace ==
    /\ workspaceRoot = [defined |-> TRUE, dir |-> WorkspaceRootDir]
    /\ fsManifest = [d \in {WorkspaceRootDir} |-> AbsentManifest]

TreeIdle ==
    /\ fsDirs = {}
    /\ activeFile = NoFile
    /\ TreeIsStale

\* a workspace of two packages, each with its own node_modules
TreeInit ==
    /\ workspaceRoot = [defined |-> TRUE, dir |-> TreeRootDir]
    /\ activeFile \in {NoFile, FileIn(TreeRootDir \o <<Seg_src>>),
                       FileIn(SubPackageDir \o <<Seg_src>>)}
    /\ \E top \in [{TreeRootDir, SubPackageDir} ->
                        {AbsentManifest, BrokenManifest} \cup PackageManifests],
          copy \in [InstalledDirs({Key_a}) -> InstallStates(InstalledManifests)],
          leaf \in SUBSET InstalledDirs({Key_b}) :
            /\ fsManifest = [d \in TreeFsDomain |->
                    IF d \in DOMAIN top THEN top[d]
                    ELSE IF d \in DOMAIN copy THEN copy[d].manifest
                    ELSE AbsentManifest]
            /\ fsDirs = {d \in DOMAIN copy : copy[d].exists} \cup leaf
    /\ TreeIsStale

\* one package whose manifest is any text of at most MaxEntries entries
ManifestInit ==
    /\ workspaceRoot = [defined |-> TRUE, dir |-> TreeRootDir]
    /\ activeFile = NoFile
    /\ \E m \in JsonManifests(MaxEntries) :
            fsManifest = [d \in TreeFsDomain |->
                            IF d = TreeRootDir THEN m ELSE AbsentManifest]
    /\ fsDirs \in {{}, {RootNodeModulesPath(TreeRootDir, Key_a)}}
    /\ TreeIsStale

(***************************************************************************)
(* NodeDependenciesView: setupDocumentChangeListener, enableDocument-      *)
(* Listener, disableDocumentListener and handleDocumentChange,             *)
(* node-dependencies.ts 132-183                                            *)
(***************************************************************************)
\* most visibility and editor events of a run
MaxEvents == 4

\* the documents an editor can show
ActiveFiles ==
    {NoFile, FileIn(TreeRootDir), FileIn(TreeRootDir \o <<Seg_src>>),
     FileIn(SubPackageDir \o <<Seg_src>>), FileIn(SiblingDir), FileIn(<<Seg_h>>)}

\* the directories that can hold a package.json
ManifestDirs == {<<>>, <<Seg_h>>, TreeRootDir, SubPackageDir, SiblingDir}

EmptyManifest == JsonManifest(NoGroup, NoGroup, NoGroup)

ViewInit ==
    /\ workspaceRoot = [defined |-> TRUE, dir |-> TreeRootDir]
    /\ activeFile \in ActiveFiles
    /\ \E present \in SUBSET ManifestDirs :
            fsManifest = [d \in TreeFsDomain |->
                            IF d \in present THEN EmptyManifest ELSE AbsentManifest]
    /\ fsDirs = {}
    /\ TreeIsStale
    /\ vVisible \in BOOLEAN
    /\ lastActivePackageJson = NoPath
    /\ vEvents = 0
    /\ vResolutions = <<>>

\* handleDocumentChange (lines 175-183), run by a listener
HandleDocumentChange_RefreshAlways(by, activeEditor) ==
    LET currentPackageJson == GetRelevantPackageJsonPath(activeEditor)
        refreshes == currentPackageJson.found
    IN  /\ vResolutions' = Append(vResolutions,
                [by |-> by, file |-> activeEditor, found |-> currentPackageJson.found,
                 dir |-> currentPackageJson.dir,
                 examined |-> currentPackageJson.examined, fired |-> refreshes])
        /\ IF refreshes
           THEN /\ lastActivePackageJson' = PathOf(currentPackageJson)
                /\ ProviderRefresh
           ELSE UNCHANGED <<lastActivePackageJson, tPc, tRoots, tKids, tFired, tOne>>

HandleDocumentChange(by, activeEditor) ==
    LET currentPackageJson == GetRelevantPackageJsonPath(activeEditor)
        refreshes == /\ currentPackageJson.found
                     /\ PathOf(currentPackageJson) # lastActivePackageJson
    IN  /\ vResolutions' = Append(vResolutions,
                [by |-> by, file |-> activeEditor, found |-> currentPackageJson.found,
                 dir |-> currentPackageJson.dir,
                 examined |-> currentPackageJson.examined, fired |-> refreshes])
        /\ IF refreshes
           THEN /\ lastActivePackageJson' = PathOf(currentPackageJson)
                /\ ProviderRefresh
           ELSE UNCHANGED <<lastActivePackageJson, tPc, tRoots, tKids, tFired, tOne>>

\* onDidChangeActiveTextEditor (lines 146-151)
ChangeActiveTextEditor(editor) ==
    /\ vEvents < MaxEvents
    /\ editor # activeFile
    /\ vEvents' = vEvents + 1
    /\ activeFile' = editor
    /\ IF vVisible
       THEN HandleDocumentChange("editor", editor)
       ELSE UNCHANGED <<lastActivePackageJson, vResolutions, tPc, tRoots, tKids, tFired, tOne>>
    /\ UNCHANGED <<vVisible, fsDirs, notifications>>
    /\ UNCHANGED notTreeVars

\* onDidChangeVisibility (lines 134-143) with enableDocumentListener and
\* disableDocumentListener (lines 159-170)
ChangeVisibility(visible) ==
    /\ vEvents < MaxEvents
    /\ visible # vVisible
    /\ vEvents' = vEvents + 1
    /\ vVisible' = visible
    /\ IF visible
       THEN HandleDocumentChange("show", activeFile)
       ELSE /\ lastActivePackageJson' = NoPath
            /\ UNCHANGED <<vResolutions, tPc, tRoots, tKids, tFired, tOne>>
    /\ UNCHANGED <<activeFile, fsDirs, notifications>>
    /\ UNCHANGED notTreeVars

ViewNext ==
    \/ \E editor \in ActiveFiles : ChangeActiveTextEditor(editor)
    \/ \E visible \in BOOLEAN : ChangeVisibility(visible)

(***************************************************************************)
(* NpmApiService as a process-wide service: getPackageInfo and clearCache, *)
(* npmApiService.ts 116-158 and 294-296                                    *)
(***************************************************************************)
\* most getPackageInfo calls of a run
MaxCalls == 3
\* how many hours of a run are observed
MaxHours == 1

RegistryNames == {<<"n">>}
RegistryVersions == {NoVersion, <<"1">>}

\* what passes between two events
TimeSteps == {1, CACHE_DURATION - 1, 60 * 1000}

\* the instants observed
Instants ==
    {2 * CACHE_DURATION + a * (CACHE_DURATION - 1) + b + c * 60 * 1000 :
        a \in 0..MaxHours, b \in 0..1, c \in 0..1}

RegistryInit ==
    /\ RegistryStart
    /\ rCalls = <<>>

\* getPackageInfo up to its first await (lines 120-136)
GetPackageInfo(packageName, version) ==
    /\ Len(rCalls) < MaxCalls
    /\ LET cacheKey == CacheKey(packageName, version)
           call == [packageName |-> packageName, key |-> cacheKey]
       IN  rCalls' = Append(rCalls,
                IF CacheFresh(cache, cacheKey, now)
                THEN call @@ [requested |-> FALSE, settled |-> TRUE,
                              outcome |-> "cached", value |-> cache[cacheKey].data]
                ELSE call @@ [requested |-> TRUE, settled |-> FALSE,
                              outcome |-> "pending", value |-> Pending])
    /\ UNCHANGED registryVars
    /\ UNCHANGED notRegistryVars

\* the request of a call ends and the call settles (lines 137-157)
ResponseArrives(i, outcome) ==
    /\ i \in 1..Len(rCalls)
    /\ ~rCalls[i].settled
    /\ rCalls' = [rCalls EXCEPT ![i] =
            [@ EXCEPT !.settled = TRUE, !.outcome = outcome,
                      !.value = FetchValue(rCalls[i].packageName, outcome)]]
    /\ cache' = FetchCache(cache, rCalls[i].key, rCalls[i].packageName, outcome, now)
    /\ notifications' = FetchNotifications(notifications, outcome)
    /\ UNCHANGED now
    /\ UNCHANGED notRegistryVars

\* clearCache (lines 294-296)
ClearCache ==
    /\ cache' = <<>>
    /\ UNCHANGED <<now, notifications, rCalls>>
    /\ UNCHANGED notRegistryVars

\* the clock advances
TimePasses(step) ==
    /\ now + step \in Instants
    /\ now' = now + step
    /\ UNCHANGED <<cache, notifications, rCalls>>
    /\ UNCHANGED notRegistryVars

RegistryNext ==
    \/ \E packageName \in RegistryNames, version \in RegistryVersions :
            GetPackageInfo(packageName, version)
    \/ \E i \in 1..MaxCalls, outcome \in FetchOutcomes : ResponseArrives(i, outcome)
    \/ ClearCache
    \/ \E step \in TimeSteps : TimePasses(step)

(***************************************************************************)
(* NpmQuickPickProvider.showPackageSearchStep and searchPackages,          *)
(* extension.ts 121-191 and 280-293                                        *)
(***************************************************************************)
\* most onDidChangeValue events of a run
MaxKeys == 4

\* the delay given to setTimeout (line 170), in milliseconds
DEBOUNCE_MS == 500

\* what passes between two events, in milliseconds
SearchTimeSteps == {200, DEBOUNCE_MS}

\* the values the input box takes
SearchValues == {<<>>, <<" ">>, <<"a">>, <<" ", "b">>}

\* String.prototype.trim
RECURSIVE TrimStart(_)
TrimStart(s) == IF s # <<>> /\ Head(s) = " " THEN TrimStart(Tail(s)) ELSE s

RECURSIVE TrimEnd(_)
TrimEnd(s) ==
    IF s # <<>> /\ s[Len(s)] = " " THEN TrimEnd(SubSeq(s, 1, Len(s) - 1)) ELSE s

Trim(s) == TrimEnd(TrimStart(s))

\* searchTimeout before the first setTimeout (line 37)
NoHandle == 0

\* quickPick.items at creation: the two browse actions (lines 125-138)
BrowseItems == <<[action |-> "browse-npm"], [action |-> "browse-trends"]>>

\* the items made of the packages a search returned (lines 152-164)
PackageItems(packages) == [i \in 1..Len(packages) |-> [package |-> packages[i]]]

\* how a search request ends: with well-formed packages, with a failure of
\* fetch or of response.json() (lines 289-292), or with an object whose
\* package has no publisher or keywords, on which the mapping throws
SearchOutcomes == {"packages", "failure", "malformed"}

\* what searchPackages resolves with (lines 280-293)
SearchPackages(query, outcome) ==
    IF outcome = "failure" THEN <<>> ELSE <<[name |-> query, outcome |-> outcome]>>

\* clearTimeout: a timer that has not fired yet never fires
ClearTimeout(ts, handle) ==
    IF handle \in DOMAIN ts /\ ts[handle].state = "armed"
    THEN [ts EXCEPT ![handle].state = "cleared"]
    ELSE ts

\* onDidChangeValue as written, without lines 142-144
ChangeValue_NoClear(value) ==
    /\ qChanges < MaxKeys
    /\ value # qValue
    /\ qValue' = value
    /\ qChanges' = qChanges + 1
    /\ IF Trim(value) # <<>>
       THEN /\ timers' = Append(timers,
                    [value |-> value, setBy |-> qChanges + 1, elapsed |-> 0,
                     state |-> "armed"])
            /\ searchTimeout' = Len(timers) + 1
            /\ UNCHANGED qItems
       ELSE /\ timers' = timers
            /\ qItems' = <<>>
            /\ UNCHANGED searchTimeout
    /\ UNCHANGED <<qBusy, searches, qErrors>>
    /\ UNCHANGED notSearchVars

\* the onDidChangeValue listener (lines 140-174)
ChangeValue(value) ==
    /\ qChanges < MaxKeys
    /\ value # qValue
    /\ qValue' = value
    /\ qChanges' = qChanges + 1
    /\ LET kept == IF searchTimeout # NoHandle
                   THEN ClearTimeout(timers, searchTimeout)
                   ELSE timers
       IN  IF Trim(value) # <<>>
           THEN /\ timers' = Append(kept,
                        [value |-> value, setBy |-> qChanges + 1, elapsed |-> 0,
                         state |-> "armed"])
                /\ searchTimeout' = Len(timers) + 1
                /\ UNCHANGED qItems
           ELSE /\ timers' = kept
                /\ qItems' = <<>>
                /\ UNCHANGED searchTimeout
    /\ UNCHANGED <<qBusy, searches, qErrors>>
    /\ UNCHANGED notSearchVars

\* a timer's callback runs, up to the fetch of searchPackages (lines 148-151
\* and 283-285)
TimerFires(handle) ==
    /\ handle \in DOMAIN timers
    /\ timers[handle].state = "armed"
    /\ timers[handle].elapsed >= DEBOUNCE_MS
    /\ timers' = [timers EXCEPT ![handle].state = "fired"]
    /\ qBusy' = TRUE
    /\ searches' = Append(searches,
            [query |-> timers[handle].value, setBy |-> timers[handle].setBy,
             waited |-> timers[handle].elapsed, changes |-> qChanges,
             input |-> qValue, settled |-> FALSE, outcome |-> "pending"])
    /\ UNCHANGED <<qValue, qChanges, qItems, searchTimeout, qErrors>>
    /\ UNCHANGED notSearchVars

\* the request of a search ends and the callback resumes (lines 151-169
\* and 286-292)
SearchSettles(i, outcome) ==
    /\ i \in DOMAIN searches
    /\ ~searches[i].settled
    /\ searches' = [searches EXCEPT ![i].settled = TRUE, ![i].outcome = outcome]
    /\ IF outcome = "malformed"
       THEN /\ qErrors' = Append(qErrors, "Failed to search packages")
            /\ UNCHANGED qItems
       ELSE /\ qItems' = PackageItems(SearchPackages(searches[i].query, outcome))
            /\ UNCHANGED qErrors
    /\ qBusy' = FALSE
    /\ UNCHANGED <<qValue, qChanges, timers, searchTimeout>>
    /\ UNCHANGED notSearchVars

\* time passes for the timers that wait
Elapse(step) ==
    /\ \E h \in DOMAIN timers :
            timers[h].state = "armed" /\ timers[h].elapsed < DEBOUNCE_MS
    /\ timers' = [h \in DOMAIN timers |->
            IF timers[h].state = "armed"
            THEN [timers[h] EXCEPT !.elapsed =
                    IF @ + step > DEBOUNCE_MS THEN DEBOUNCE_MS ELSE @ + step]
            ELSE timers[h]]
    /\ UNCHANGED <<qValue, qChanges, qItems, qBusy, searchTimeout, searches, qErrors>>
    /\ UNCHANGED notSearchVars

\* the quick pick after show() (lines 122-138 and 190)
SearchInit ==
    /\ qValue = <<>>
    /\ qChanges = 0
    /\ qItems = BrowseItems
    /\ qBusy = FALSE
    /\ timers = <<>>
    /\ searchTimeout = NoHandle
    /\ searches = <<>>
    /\ qErrors = <<>>

SearchIdle == SearchInit


SearchNext ==
    \/ \E value \in SearchValues : ChangeValue(value)
    \/ \E handle \in 1..MaxKeys : TimerFires(handle)
    \/ \E i \in 1..MaxKeys, outcome \in SearchOutcomes : SearchSettles(i, outcome)
    \/ \E step \in SearchTimeSteps : Elapse(step)

(***************************************************************************)
(* Running a package-manager command: NodeDependenciesView.removePackage   *)
(* (node-dependencies.ts 250-282), NpmQuickPickProvider.removePackage,     *)
(* installPackage, getPackageDirectory and executeWithTask (extension.ts   *)
(* 47-119, 295-415 and 654-706)                                            *)
(***************************************************************************)
\* the delay of the timeout of executeWithTask (line 704), in milliseconds
TASK_TIMEOUT_MS == 30000

\* what passes between two events, in milliseconds
TaskTimeSteps == {10000, TASK_TIMEOUT_MS}

\* the exit codes a process ends with
ExitCodes == {0, 1}

\* the answers showWarningMessage resolves with: a button, or undefined when
\* the dialog is dismissed
ConfirmAnswers == {"Yes", "No", "undefined"}

\* a name every object inherits a member for, from Object.prototype
Key_constructor == <<"c", "o", "n", "s", "t", "r", "u", "c", "t", "o", "r">>
ObjectPrototypeKeys == {Key_constructor}

\* the labels of the nodes removed
RemoveLabels == {Key_a, Key_constructor}

\* a template literal's text for a name
RECURSIVE Text(_)
Text(chars) == IF chars = <<>> THEN "" ELSE Head(chars) \o Text(Tail(chars))

\* a dependency group with these entries
Group(entries) == [present |-> TRUE, entries |-> entries]
Entry(key, value) == [key |-> key, value |-> value]

\* what <node.workspaceDir>/package.json can be when a node is removed; the
\* tree may be older than the file
RemoveManifests ==
    {AbsentManifest, BrokenManifest, EmptyManifest,
     JsonManifest(NoGroup, Group(<<>>), NoGroup),
     JsonManifest(NoGroup, Group(<<Entry(Key_a, "^1")>>), NoGroup),
     JsonManifest(NoGroup, Group(<<Entry(Key_a, "")>>), NoGroup),
     JsonManifest(Group(<<Entry(Key_a, "^1")>>), NoGroup, NoGroup),
     JsonManifest(NoGroup, Group(<<Entry(Key_a, "^1")>>),
                  Group(<<Entry(Str_types \o Key_a, "^1")>>)),
     JsonManifest(NoGroup, NoGroup, Group(<<Entry(Key_constructor, "^1")>>))}

\* group?.[key] is truthy: an own member whose value is not the empty
\* string, or a member inherited from Object.prototype
Truthy(group, key) ==
    /\ group.present
    /\ IF \E i \in 1..Len(group.entries) : group.entries[i].key = key
       THEN ParsedValue(group.entries, key) # ""
       ELSE key \in ObjectPrototypeKeys

\* the test of lines 60-64, negated
FoundInPackageJson(pkg, packageName) ==
    \/ Truthy(pkg.dependencies, packageName)
    \/ Truthy(pkg.devDependencies, packageName)
    \/ Truthy(pkg.peerDependencies, packageName)

\* hasTypesPackage (lines 70-73), as buildRemoveCommand tests it
HasTypesPackage(pkg, packageName) ==
    FoundInPackageJson(pkg, Str_types \o packageName)

\* the loop of getPackageDirectory without the check of the workspace root
\* after it
RECURSIVE DirectoryWalk_NoRootCheck(_, _, _)
DirectoryWalk_NoRootCheck(rootPath, currentDir, examined) ==
    IF /\ currentDir # Parent(currentDir)
       /\ StartsWith(PathString(currentDir), PathString(rootPath))
    THEN IF PathExists(currentDir)
         THEN ManifestAt(currentDir, Append(examined, currentDir))
         ELSE DirectoryWalk_NoRootCheck(rootPath, Parent(currentDir),
                                        Append(examined, currentDir))
    ELSE NoManifest(examined)

\* the loop of getPackageDirectory (lines 398-405) and the check of the
\* workspace root after it (lines 409-414)
RECURSIVE DirectoryWalk(_, _, _)
DirectoryWalk(rootPath, currentDir, examined) ==
    IF /\ currentDir # Parent(currentDir)
       /\ StartsWith(PathString(currentDir), PathString(rootPath))
    THEN IF PathExists(currentDir)
         THEN ManifestAt(currentDir, Append(examined, currentDir))
         ELSE DirectoryWalk(rootPath, Parent(currentDir), Append(examined, currentDir))
    ELSE IF PathExists(rootPath)
         THEN ManifestAt(rootPath, Append(examined, rootPath))
         ELSE NoManifest(Append(examined, rootPath))

\* getPackageDirectory (lines 375-415): the directory returned, or null
GetPackageDirectory(activeEditor) ==
    IF ~workspaceRoot.defined THEN NoManifest(<<>>)
    ELSE LET rootPath == workspaceRoot.dir
         IN  IF ~activeEditor.open
             THEN IF PathExists(rootPath)
                  THEN ManifestAt(rootPath, <<rootPath>>)
                  ELSE NoManifest(<<rootPath>>)
             ELSE IF ~StartsWith(FileString(activeEditor), PathString(rootPath))
             THEN IF PathExists(rootPath)
                  THEN ManifestAt(rootPath, <<rootPath>>)
                  ELSE NoManifest(<<rootPath>>)
             ELSE DirectoryWalk(rootPath, activeEditor.dir, <<>>)

\* the package installed
InstalledPkg == [name |-> "a", version |-> "1"]

NoTask == [started |-> FALSE]

\* executeWithTask up to the end of the executor (lines 659-704): the task
\* runs, the listener listens and the timer waits
ExecuteWithTask(cwd, command) ==
    [started |-> TRUE, cwd |-> cwd, command |-> command, promise |-> "pending",
     listener |-> "listening", timer |-> "armed", elapsed |-> 0,
     process |-> "running", exitCode |-> 0]

Notice(level, text) == [level |-> level, text |-> text]

\* what follows await executeWithTask in removePackage of the provider
\* (lines 107-118) and of the view (lines 277-281), or in installPackage
\* (lines 356-372)
TaskSettled(fulfilled) ==
    /\ fPc' = "done"
    /\ IF flow.kind = "remove"
       THEN IF fulfilled
            THEN /\ fNotices' = Append(fNotices, Notice("information", "Successfully removed"))
                 /\ ProviderRefresh
            ELSE /\ fNotices' = fNotices \o
                        <<Notice("error", "Failed to remove package"),
                          Notice("error", "Failed to remove package")>>
                 /\ UNCHANGED <<tPc, tRoots, tKids, tFired, tOne>>
       ELSE /\ fNotices' = Append(fNotices,
                    IF fulfilled
                    THEN Notice("information", "Successfully installed")
                    ELSE Notice("error", "Failed to install package"))
            /\ UNCHANGED <<tPc, tRoots, tKids, tFired, tOne>>

\* the command nodeDependencies.removePackage up to the dialog (lines 250-258)
ConfirmRemove ==
    /\ fPc = "start"
    /\ flow.kind = "remove"
    /\ fPc' = "dialog"
    /\ UNCHANGED <<flow, task, fNotices, tPc, tRoots, tKids, tFired, tOne>>
    /\ UNCHANGED notFlowVars

\* the dialog is answered (lines 260-275 and 47-50)
AnswerConfirm(result) ==
    /\ fPc = "dialog"
    /\ flow' = [flow EXCEPT !.answer = result]
    /\ fPc' = IF result # "Yes" THEN "done" ELSE "detect"
    /\ UNCHANGED <<task, fNotices, tPc, tRoots, tKids, tFired, tOne>>
    /\ UNCHANGED notFlowVars

\* installPackage up to detectPackageManager (lines 295-304)
InstallPackage ==
    /\ fPc = "start"
    /\ flow.kind = "install"
    /\ LET packageDir == GetPackageDirectory(activeFile)
       IN  /\ flow' = [flow EXCEPT !.dir = packageDir]
           /\ IF ~packageDir.found
              THEN /\ fNotices' = Append(fNotices,
                            Notice("error", "No package.json found in workspace"))
                   /\ fPc' = "done"
              ELSE /\ fPc' = "detect"
                   /\ UNCHANGED fNotices
    /\ UNCHANGED <<task, tPc, tRoots, tKids, tFired, tOne>>
    /\ UNCHANGED notFlowVars

\* the rest of removePackage once the package manager is known, up to
\* await executeWithTask (lines 53-105) or to its end
RemoveChecked(packageManager) ==
    LET pkg == fsManifest[flow.dir.dir]
        packageName == flow.label
    IN  IF pkg.kind = "absent"
        THEN /\ fNotices' = Append(fNotices, Notice("error", "No package.json found"))
             /\ fPc' = "done"
             /\ task' = task
             /\ ProviderRefresh
        ELSE IF pkg.kind = "broken"
        THEN /\ fNotices' = fNotices \o
                    <<Notice("error", "Failed to remove package"),
                      Notice("error", "Failed to remove package")>>
             /\ fPc' = "done"
             /\ UNCHANGED <<task, tPc, tRoots, tKids, tFired, tOne>>
        ELSE IF ~FoundInPackageJson(pkg, packageName)
        THEN /\ fNotices' = Append(fNotices,
                    Notice("error", "Package not found in package.json"))
             /\ fPc' = "done"
             /\ task' = task
             /\ ProviderRefresh
        ELSE /\ task' = ExecuteWithTask(flow.dir.dir,
                    BuildRemoveCommand(packageManager, Text(packageName),
                                       HasTypesPackage(pkg, packageName)))
             /\ fPc' = "task"
             /\ UNCHANGED <<fNotices, tPc, tRoots, tKids, tFired, tOne>>

\* detectPackageManager settles (lines 50 and 304)
DetectSettles(packageManager) ==
    /\ fPc = "detect"
    /\ flow' = [flow EXCEPT !.packageManager = packageManager]
    /\ IF flow.kind = "remove"
       THEN RemoveChecked(packageManager)
       ELSE IF flow.installType # "--save-peer"
       THEN /\ fPc' = "types"
            /\ UNCHANGED <<task, fNotices, tPc, tRoots, tKids, tFired, tOne>>
       ELSE /\ task' = ExecuteWithTask(flow.dir.dir,
                    BuildInstallCommand(packageManager, InstalledPkg,
                                        flow.installType, FALSE))
            /\ fPc' = "task"
            /\ UNCHANGED <<fNotices, tPc, tRoots, tKids, tFired, tOne>>
    /\ UNCHANGED notFlowVars

\* checkTypesPackageExists settles (lines 309-354)
TypesCheckSettles(includeTypes) ==
    /\ fPc = "types"
    /\ flow' = [flow EXCEPT !.includeTypes = includeTypes]
    /\ task' = ExecuteWithTask(flow.dir.dir,
            BuildInstallCommand(flow.packageManager, InstalledPkg, flow.installType,
                                includeTypes))
    /\ fPc' = "task"
    /\ UNCHANGED <<fNotices, tPc, tRoots, tKids, tFired, tOne>>
    /\ UNCHANGED notFlowVars

\* the timeout of executeWithTask that leaves the promise pending
TaskTimeout_NoResolve ==
    /\ task.started
    /\ task.timer = "armed"
    /\ task.elapsed >= TASK_TIMEOUT_MS
    /\ task' = [task EXCEPT !.timer = "fired", !.listener = "disposed"]
    /\ UNCHANGED <<fPc, fNotices, tPc, tRoots, tKids, tFired, tOne>>
    /\ UNCHANGED flow
    /\ UNCHANGED notFlowVars

\* the callback of the timeout (lines 701-704)
TaskTimeout ==
    /\ task.started
    /\ task.timer = "armed"
    /\ task.elapsed >= TASK_TIMEOUT_MS
    /\ task' = [task EXCEPT !.timer = "fired", !.listener = "disposed",
                            !.promise = IF @ = "pending" THEN "fulfilled" ELSE @]
    /\ IF task.promise = "pending"
       THEN TaskSettled(TRUE)
       ELSE UNCHANGED <<fPc, fNotices, tPc, tRoots, tKids, tFired, tOne>>
    /\ UNCHANGED flow
    /\ UNCHANGED notFlowVars

\* the task's process ends; the listener of onDidEndTaskProcess hears of it
\* unless it was disposed (lines 686-695)
TaskProcessEnds(exitCode) ==
    /\ task.started
    /\ task.process = "running"
    /\ IF task.listener = "listening"
       THEN /\ task' = [task EXCEPT !.process = "ended", !.exitCode = exitCode,
                                    !.listener = "disposed",
                                    !.promise = IF exitCode = 0 THEN "fulfilled"
                                                ELSE "rejected"]
            /\ TaskSettled(exitCode = 0)
       ELSE /\ task' = [task EXCEPT !.process = "ended", !.exitCode = exitCode]
            /\ UNCHANGED <<fPc, fNotices, tPc, tRoots, tKids, tFired, tOne>>
    /\ UNCHANGED flow
    /\ UNCHANGED notFlowVars

\* time passes for the timeout
TaskElapse(step) ==
    /\ task.started
    /\ task.timer = "armed"
    /\ task.elapsed < TASK_TIMEOUT_MS
    /\ task' = [task EXCEPT !.elapsed =
            IF @ + step > TASK_TIMEOUT_MS THEN TASK_TIMEOUT_MS ELSE @ + step]
    /\ UNCHANGED <<fPc, flow, fNotices, tPc, tRoots, tKids, tFired, tOne>>
    /\ UNCHANGED notFlowVars

\* the flows of a run: removing a node of the workspace root's manifest, or
\* installing a package
RemoveFlow(label) ==
    [kind |-> "remove", label |-> label, installType |-> "",
     dir |-> ManifestAt(TreeRootDir, <<>>), answer |-> "none",
     packageManager |-> "none", includeTypes |-> FALSE]
InstallFlow(installType) ==
    [kind |-> "install", label |-> Key_a, installType |-> installType,
     dir |-> NoManifest(<<>>), answer |-> "none",
     packageManager |-> "none", includeTypes |-> FALSE]
NoFlow == RemoveFlow(Key_a)

FlowInit ==
    /\ workspaceRoot = [defined |-> TRUE, dir |-> TreeRootDir]
    /\ fsDirs = {}
    /\ TreeIsStale
    /\ fPc = "start"
    /\ task = NoTask
    /\ fNotices = <<>>
    /\ \/ /\ flow \in {RemoveFlow(label) : label \in RemoveLabels}
          /\ activeFile = NoFile
          /\ \E pkg \in RemoveManifests :
                fsManifest = [d \in TreeFsDomain |->
                                IF d = TreeRootDir THEN pkg ELSE AbsentManifest]
       \/ /\ flow \in {InstallFlow(installType) : installType \in InstallTypes}
          /\ activeFile \in {NoFile, FileIn(SubPackageDir \o <<Seg_src>>)}
          /\ \E present \in SUBSET {TreeRootDir, SubPackageDir} :
                fsManifest = [d \in TreeFsDomain |->
                                IF d \in present THEN EmptyManifest ELSE AbsentManifest]

FlowIdle ==
    /\ fPc = "idle"
    /\ flow = NoFlow
    /\ task = NoTask
    /\ fNotices = <<>>

UiIdle == SearchIdle /\ FlowIdle

FlowNext ==
    \/ ConfirmRemove
    \/ \E result \in ConfirmAnswers : AnswerConfirm(result)
    \/ InstallPackage
    \/ \E packageManager \in PackageManager : DetectSettles(packageManager)
    \/ \E includeTypes \in BOOLEAN : TypesCheckSettles(includeTypes)
    \/ TaskTimeout
    \/ \E exitCode \in ExitCodes : TaskProcessEnds(exitCode)
    \/ \E step \in TaskTimeSteps : TaskElapse(step)

(***************************************************************************)
(* The tree the host displays while the editor changes: the listeners of   *)
(* NodeDependenciesView with the host asking getChildren() for the roots   *)
(* after each change event, node-dependencies.ts 132-183 and 909-929       *)
(***************************************************************************)
\* the manifests of the workspace root and of its sub-package
RootPackageManifest == JsonManifest(NoGroup, OneEntry(Key_a, "^1"), NoGroup)
SubPackageManifest == JsonManifest(NoGroup, OneEntry(Key_b, "^2"), NoGroup)

DisplayInit ==
    /\ workspaceRoot = [defined |-> TRUE, dir |-> TreeRootDir]
    /\ activeFile \in ActiveFiles
    /\ \E present \in SUBSET {TreeRootDir, SubPackageDir} :
            fsManifest = [d \in TreeFsDomain |->
                IF d \notin present THEN AbsentManifest
                ELSE IF d = TreeRootDir THEN RootPackageManifest
                ELSE SubPackageManifest]
    /\ fsDirs = {}
    /\ TreeIsStale
    /\ vVisible \in BOOLEAN
    /\ lastActivePackageJson = NoPath
    /\ vEvents = 0
    /\ vResolutions = <<>>

DisplayNext ==
    \/ \E editor \in ActiveFiles : ChangeActiveTextEditor(editor)
    \/ \E visible \in BOOLEAN : ChangeVisibility(visible)
    \/ GetRoots

(***************************************************************************)
(* Where an install runs and what the tree shows: getPackageDirectory      *)
(* (extension.ts 375-415) and getChildren (node-dependencies.ts 909-929)   *)
(* over one filesystem, with or without a workspace folder                 *)
(***************************************************************************)
NoWorkspace == [defined |-> FALSE, dir |-> <<>>]

DirectoryInit ==
    /\ workspaceRoot \in {[defined |-> TRUE, dir |-> TreeRootDir], NoWorkspace}
    /\ activeFile \in ActiveFiles
    /\ \E present \in SUBSET ManifestDirs :
            fsManifest = [d \in TreeFsDomain |->
                            IF d \in present THEN EmptyManifest ELSE AbsentManifest]
    /\ fsDirs = {}
    /\ TreeIsStale
    /\ fPc = "start"
    /\ flow = InstallFlow("")
    /\ task = NoTask
    /\ fNotices = <<>>

DirectoryNext ==
    \/ InstallPackage
    \/ GetRoots

(***************************************************************************)
(* Specifications                                                          *)
(***************************************************************************)
InitDetect ==
    DetectInit /\ CommandIdle /\ LocateIdle /\ RegistryIdle /\ TreeIdle /\ ViewIdle
        /\ UiIdle

SpecDetect == InitDetect /\ [][DetectNext]_vars

InitCommand ==
    CommandInit /\ DetectIdle /\ LocateIdle /\ RegistryIdle /\ TreeIdle /\ ViewIdle
        /\ UiIdle

SpecCommand == InitCommand /\ [][CommandNext]_vars

InitLocate ==
    LocateInit /\ DetectIdle /\ CommandIdle /\ RegistryIdle /\ TreeIdle /\ ViewIdle
        /\ UiIdle

SpecLocate == InitLocate /\ [][LocateNext]_vars

InitRegistry ==
    RegistryInit /\ DetectIdle /\ CommandIdle /\ LocateCallIdle /\ EmptyWorkspace
        /\ TreeIdle /\ ViewIdle /\ UiIdle

SpecRegistry == InitRegistry /\ [][RegistryNext]_vars

InitManifest ==
    ManifestInit /\ DetectIdle /\ CommandIdle /\ LocateCallIdle /\ RegistryStart
        /\ RegistryIdle /\ ViewIdle /\ UiIdle

SpecManifest == InitManifest /\ [][BuildNext]_vars

InitTree ==
    TreeInit /\ DetectIdle /\ CommandIdle /\ LocateCallIdle /\ RegistryStart
        /\ RegistryIdle /\ ViewIdle /\ UiIdle

SpecTree == InitTree /\ [][TreeNext]_vars

InitView ==
    ViewInit /\ DetectIdle /\ CommandIdle /\ LocateCallIdle /\ RegistryStart
        /\ RegistryIdle /\ UiIdle

SpecView == InitView /\ [][ViewNext]_vars

InitSearch ==
    SearchInit /\ DetectIdle /\ CommandIdle /\ LocateIdle /\ RegistryIdle /\ TreeIdle
        /\ ViewIdle /\ FlowIdle

SpecSearch == InitSearch /\ [][SearchNext]_vars

InitFlow ==
    FlowInit /\ DetectIdle /\ CommandIdle /\ LocateCallIdle /\ RegistryStart
        /\ RegistryIdle /\ ViewIdle /\ SearchIdle

SpecFlow == InitFlow /\ [][FlowNext]_vars

InitDisplay ==
    DisplayInit /\ DetectIdle /\ CommandIdle /\ LocateCallIdle /\ RegistryStart
        /\ RegistryIdle /\ UiIdle

SpecDisplay == InitDisplay /\ [][DisplayNext]_vars

InitDirectory ==
    DirectoryInit /\ DetectIdle /\ CommandIdle /\ LocateCallIdle /\ RegistryStart
        /\ RegistryIdle /\ ViewIdle /\ SearchIdle

SpecDirectory == InitDirectory /\ [][DirectoryNext]_vars

\* the event loop runs a timer that is due, and time passes
SpecFlowFair ==
    /\ SpecFlow
    /\ WF_vars(TaskTimeout)
    /\ WF_vars(\E step \in TaskTimeSteps : TaskElapse(step))

\* the event loop runs a timer that is due, and time passes
SpecSearchFair ==
    /\ SpecSearch
    /\ WF_vars(\E handle \in 1..MaxKeys : TimerFires(handle))
    /\ WF_vars(\E step \in SearchTimeSteps : Elapse(step))

(***************************************************************************)
(* Properties of PackageManagerDetector                                    *)
(***************************************************************************)
\* The text s is the characters c, alone or followed by '@' and anything.
NamesManager(s, c) ==
    /\ Len(s) >= Len(c)
    /\ SubSeq(s, 1, Len(c)) = c
    /\ (Len(s) = Len(c) \/ s[Len(c) + 1] = "@")

CharsOf(manager) ==
    CASE manager = "npm" -> Chars_npm
      [] manager = "pnpm" -> Chars_pnpm
      [] manager = "yarn" -> Chars_yarn

\* The manifest is valid JSON and its packageManager field names `manager`.
ManifestNames(m, manager) ==
    /\ m.kind = "object"
    /\ m.packageManager.t = "string"
    /\ NamesManager(m.packageManager.s, CharsOf(manager))

\* The manifest is read without error and gives no usable packageManager:
\* there is no manifest, or a manifest with no such field, an empty one, or a
\* text naming none of the three managers.
NoUsablePackageManager(m) ==
    \/ m.kind = "absent"
    \/ /\ m.kind = "object"
       /\ \/ m.packageManager.t \in {"missing", "falsy"}
          \/ /\ m.packageManager.t = "string"
             /\ \A manager \in PackageManager : ~ManifestNames(m, manager)

\* Reading or parsing the manifest fails: unreadable, malformed, the JSON
\* value null, or a packageManager value that is not a string.
ManifestReadFails(m) ==
    \/ m.kind \in {"unreadable", "malformed", "jsonNull"}
    \/ m.kind = "object" /\ m.packageManager.t = "truthyNonString"

\* pnpm-lock.yaml > yarn.lock > package-lock.json
ManagerByLockfile(locks) ==
    IF "pnpm-lock.yaml" \in locks THEN "pnpm"
    ELSE IF "yarn.lock" \in locks THEN "yarn"
    ELSE "npm"

\* pnpm if its probe succeeded, else yarn if its probe succeeded, else npm
ManagerByProbes(probes) ==
    IF Len(probes) >= 1 /\ probes[1].ok THEN "pnpm"
    ELSE IF Len(probes) >= 2 /\ probes[2].ok THEN "yarn"
    ELSE "npm"

\* C1: a valid manifest whose packageManager text before the first '@' is
\* npm, pnpm or yarn decides the result, whatever lockfiles exist and
\* whatever is on PATH; no probe is run.
C1_ManifestFieldWins ==
    \A manager \in PackageManager :
        (dPc = "done" /\ ManifestNames(dManifest, manager))
            => (dResult = manager /\ dProbes = <<>>)

C1_Witness ==
    /\ dPc = "done"
    /\ ManifestNames(dManifest, "pnpm")
    /\ dLocks = {"yarn.lock", "package-lock.json"}
    /\ dPath = {"yarn"}
    /\ dResult = "pnpm"

\* C2: with a manifest that is read without error and gives no usable
\* packageManager, any lockfile present decides the result by the priority
\* pnpm-lock.yaml > yarn.lock > package-lock.json, and no probe is run.
C2_LockfilePriority ==
    (dPc = "done" /\ NoUsablePackageManager(dManifest) /\ dLocks # {})
        => (dResult = ManagerByLockfile(dLocks) /\ dProbes = <<>>)

C2_Witness ==
    /\ dPc = "done"
    /\ dManifest = [kind |-> "object", packageManager |-> [t |-> "missing"]]
    /\ dLocks = {"yarn.lock", "package-lock.json"}
    /\ dPath = {"pnpm", "yarn"}
    /\ dResult = "yarn"

\* C3: when reading or parsing the manifest fails, detection goes on to the
\* lockfiles and returns the manager of the lockfile present; with no
\* lockfile and a manager's executable on PATH it goes on to the probes.
C3_ReadFailureFallsThrough ==
    (dPc = "done" /\ ManifestReadFails(dManifest))
        => IF dLocks # {}
           THEN dResult = ManagerByLockfile(dLocks)
           ELSE dPath # {} =>
                    (Len(dProbes) >= 1 /\ dResult = ManagerByProbes(dProbes))

\* C4: detection never throws, is never stuck before it resolves, and
\* resolves to exactly one of npm, pnpm, yarn; with no usable packageManager and no lockfile the pnpm probe is
\* run, then the yarn probe only if the first failed, and the result is pnpm,
\* else yarn, else npm accordingly.
C4_TotalAndProbeOrder ==
    /\ dResult \in PackageManager \cup {"pending"}
    /\ (dPc = "done") <=> (dResult \in PackageManager)
    /\ dPc # "done" => ENABLED DetectNext
    /\ (dPc = "done" /\ NoUsablePackageManager(dManifest) /\ dLocks = {})
        => /\ Len(dProbes) \in {1, 2}
           /\ dProbes[1].cmd = "pnpm"
           /\ (Len(dProbes) = 1) <=> dProbes[1].ok
           /\ Len(dProbes) = 2 => dProbes[2].cmd = "yarn"
           /\ dResult = ManagerByProbes(dProbes)

C4_Witness ==
    /\ dPc = "done"
    /\ dManifest = [kind |-> "absent"]
    /\ dLocks = {}
    /\ Len(dProbes) = 2
    /\ ~dProbes[1].ok /\ dProbes[2].ok
    /\ dResult = "yarn"

(***************************************************************************)
(* Properties of CommandBuilder                                            *)
(***************************************************************************)
\* the verb/flag table of the install commands
InstallTable ==
    [npm |-> [none |-> "npm install", dev |-> "npm install --save-dev",
              peer |-> "npm install --save-peer"],
     pnpm |-> [none |-> "pnpm add", dev |-> "pnpm add -D", peer |-> "pnpm add -P"],
     yarn |-> [none |-> "yarn add", dev |-> "yarn add -D", peer |-> "yarn add -P"]]

RemoveTable ==
    [npm |-> "npm uninstall", pnpm |-> "pnpm remove", yarn |-> "yarn remove"]

InstallKind(installType) ==
    CASE installType = "" -> "none"
      [] installType = "--save-dev" -> "dev"
      [] installType = "--save-peer" -> "peer"

ExpectedPrimary ==
    InstallTable[cInput.packageManager][InstallKind(cInput.installType)]
        \o " " \o cInput.pkg.name \o "@" \o cInput.pkg.version

\* C5: the primary install command is the table entry applied to
\* <name>@<version>, for every manager and install type.
C5_InstallTable ==
    cPc = "install" => cInstall.main = ExpectedPrimary

C5_Witness ==
    /\ cPc = "install"
    /\ cInput.packageManager = "yarn"
    /\ cInput.installType = "--save-peer"
    /\ cInput.pkg = [name |-> "react", version |-> "18.0.0"]
    /\ cInstall.main = "yarn add -P react@18.0.0"

\* C6: the types step is appended exactly when includeTypes holds and the
\* install type is not peer; it is joined with " && ", targets @types/<name>
\* without version and uses the manager's dev flag.
C6_TypesStep ==
    cPc = "install" =>
        cInstall.command =
            IF cInput.includeTypes /\ InstallKind(cInput.installType) # "peer"
            THEN ExpectedPrimary \o " && "
                    \o InstallTable[cInput.packageManager]["dev"]
                    \o " @types/" \o cInput.pkg.name
            ELSE ExpectedPrimary

C6_Witness ==
    /\ cPc = "install"
    /\ cInput.packageManager = "pnpm"
    /\ cInput.installType = "--save-peer"
    /\ cInput.includeTypes
    /\ cInput.pkg = [name |-> "react", version |-> "18.0.0"]
    /\ cInstall.command = "pnpm add -P react@18.0.0"

\* C7: the remove command is '<verb> <name>', followed by
\* ' && <verb> @types/<name>' with the same verb exactly when
\* hasTypesPackage holds.
C7_RemoveCommand ==
    cPc = "remove" =>
        cRemove =
            LET primary == RemoveTable[cInput.packageManager] \o " " \o cInput.pkg.name
            IN  IF cInput.hasTypesPackage
                THEN primary \o " && " \o RemoveTable[cInput.packageManager]
                        \o " @types/" \o cInput.pkg.name
                ELSE primary

C7_Witness ==
    /\ cPc = "remove"
    /\ cInput.packageManager = "yarn"
    /\ cInput.hasTypesPackage
    /\ cInput.pkg.name = "lodash"
    /\ cRemove = "yarn remove lodash && yarn remove @types/lodash"

(***************************************************************************)
(* Properties of PackageLocator                                            *)
(***************************************************************************)
ProbeAttempted == \E i \in 1..Len(lLog) : lLog[i].op = "probe"

\* the directory the manifest search starts from
LocateRoot == IF lPkgDir.found THEN lPkgDir.dir ELSE lDir

WorkspaceInstall == RootNodeModulesPath(WorkspaceRootDir, lName)

\* the manifest of a directory parses and carries the dependency's name
NamedManifest(dir) ==
    fsManifest[dir].kind = "json" /\ fsManifest[dir].name = lName

ManifestValue(dir) ==
    [source |-> "file", path |-> dir, name |-> fsManifest[dir].name]

IsExists(e) == e.op = "exists"
ExistsChecks == SelectSeq(lLog, IsExists)
RegistryAccesses == {i \in 1..Len(lLog) : lLog[i].op \in {"cache", "fetch"}}

\* C8: the module-resolution probe is attempted exactly when the name does
\* not begin with '@types/'; when it is skipped the search starts from the
\* starting directory, and when attempted it comes before every file access.
C8_ProbeIffNotTypesPrefix ==
    lPc \in {"find", "fetching", "done"} =>
        /\ ProbeAttempted <=> ~StartsWith(lName, Str_types)
        /\ ProbeAttempted => lLog[1] = LogProbe(lDir)
        /\ ~ProbeAttempted => LocateRoot = lDir

\* C9: the registry (its cache or the network) is consulted only after the
\* manifests of the candidate root, of its parent and of
\* <workspaceRoot>/node_modules/<name> were each tried, in that order, and
\* none yielded; when one yields, the first such is the result and the
\* registry is not consulted.  The workspace-root manifest yields whatever
\* its name field is.
C9_LocalBeforeRegistry ==
    LET yields1 == NamedManifest(LocateRoot)
        yields2 == NamedManifest(Parent(LocateRoot))
        yields3 == fsManifest[WorkspaceInstall].kind = "json"
    IN  /\ \A k \in RegistryAccesses :
              /\ ~yields1 /\ ~yields2 /\ ~yields3
              /\ \E a, b, c \in 1..(k - 1) :
                    /\ a < b /\ b < c
                    /\ lLog[a] = LogExists(LocateRoot)
                    /\ lLog[b] = LogExists(Parent(LocateRoot))
                    /\ lLog[c] = LogExists(WorkspaceInstall)
        /\ (lPc \in {"fetching", "done"} /\ (yields1 \/ yields2 \/ yields3))
            => /\ lPc = "done"
               /\ RegistryAccesses = {}
               /\ lResult = IF yields1 THEN ManifestValue(LocateRoot)
                            ELSE IF yields2 THEN ManifestValue(Parent(LocateRoot))
                            ELSE ManifestValue(WorkspaceInstall)

C9_Witness ==
    /\ lPc = "done"
    /\ ~NamedManifest(LocateRoot) /\ ~NamedManifest(Parent(LocateRoot))
    /\ LocateRoot # WorkspaceInstall
    /\ fsManifest[WorkspaceInstall] = [kind |-> "json", name |-> Chars_other]
    /\ CacheFresh(cache, lName, now)
    /\ lResult = [source |-> "file", path |-> WorkspaceInstall, name |-> Chars_other]
    /\ RegistryAccesses = {}

C11_RegistryWhenNoLocal ==
    /\ lPc = "done" => lResult.source \in {"file", "registry", "null"}
    /\ lPc \in {"start", "find", "fetching"} => ENABLED LocateNext
    /\ (lPc = "done"
            /\ ~NamedManifest(LocateRoot)
            /\ ~NamedManifest(Parent(LocateRoot))
            /\ fsManifest[WorkspaceInstall].kind # "json")
        => /\ RegistryAccesses # {}
           /\ lResult.source \in {"registry", "null"}
    /\ (lPc = "done" /\ lResult = Null) => RegistryAccesses # {}

(***************************************************************************)
(* Properties of DependencyTreeModel                                       *)
(***************************************************************************)
Nodes == tRoots.nodes

\* the manifest the roots are built from when no editor is open
RootManifest == fsManifest[workspaceRoot.dir]

GroupOf(m, type) ==
    IF type = "peer" THEN m.peerDependencies
    ELSE IF type = "dep" THEN m.dependencies
    ELSE m.devDependencies

TypeRank(type) == IF type = "peer" THEN 1 ELSE IF type = "dep" THEN 2 ELSE 3

KeysOf(group) == {group.entries[i].key : i \in 1..Len(group.entries)}

DistinctKeys(group) ==
    \A i, j \in 1..Len(group.entries) :
        group.entries[i].key = group.entries[j].key => i = j

\* the entries of a group as the manifest writes them, as nodes
Declared(group, type) ==
    [i \in 1..Len(group.entries) |->
        [label |-> group.entries[i].key, version |-> group.entries[i].value,
         type |-> type]]

Shown(nodes) ==
    [i \in 1..Len(nodes) |->
        [label |-> nodes[i].label, version |-> nodes[i].version, type |-> nodes[i].type]]

\* C12 as stated: the nodes are the peerDependencies entries, then the
\* dependencies entries, then the devDependencies entries, each group in
\* the order the manifest writes its keys, one node per entry (checked for
\* manifests that write no key twice in a group).
C12_ManifestKeyOrder ==
    (/\ tPc = "built"
     /\ RootManifest.kind = "json"
     /\ \A type \in {"peer", "dep", "dev"} : DistinctKeys(GroupOf(RootManifest, type)))
        => /\ tRoots.ok
           /\ Shown(Nodes) = Declared(RootManifest.peerDependencies, "peer")
                                \o Declared(RootManifest.dependencies, "dep")
                                \o Declared(RootManifest.devDependencies, "dev")

\* C12 amended: the nodes are grouped peer, dep, dev; a group has one node
\* per distinct key, with the value the key's last entry has; inside a group
\* the keys that are array indices come first in ascending numeric order and
\* the other keys follow in the order of their first entry; an absent group
\* has no node.
C12_ObjectKeysOrder ==
    (tPc = "built" /\ RootManifest.kind = "json")
        => /\ tRoots.ok
           /\ \A i, j \in 1..Len(Nodes) :
                i < j => TypeRank(Nodes[i].type) <= TypeRank(Nodes[j].type)
           /\ \A type \in {"peer", "dep", "dev"} :
                LET group == GroupOf(RootManifest, type)
                    at == {i \in 1..Len(Nodes) : Nodes[i].type = type}
                IN  /\ {Nodes[i].label : i \in at} = KeysOf(group)
                    /\ ~group.present => at = {}
                    /\ \A i, j \in at : Nodes[i].label = Nodes[j].label => i = j
                    /\ \A i \in at :
                        /\ Nodes[i].workspaceDir = workspaceRoot.dir
                        /\ \E e \in 1..Len(group.entries) :
                            /\ group.entries[e].key = Nodes[i].label
                            /\ group.entries[e].value = Nodes[i].version
                            /\ \A later \in (e + 1)..Len(group.entries) :
                                group.entries[later].key # Nodes[i].label
                    /\ \A i, j \in at :
                        i < j =>
                            IF IsArrayIndex(Nodes[j].label)
                            THEN /\ IsArrayIndex(Nodes[i].label)
                                 /\ NumberBelow(Nodes[i].label, Nodes[j].label)
                            ELSE \/ IsArrayIndex(Nodes[i].label)
                                 \/ FirstAt(group.entries, Nodes[i].label)
                                        < FirstAt(group.entries, Nodes[j].label)

\* a manifest with a peer dependency and the dependencies "b" and "2",
\* written in this order, has been built
C12_Witness ==
    /\ tPc = "built"
    /\ RootManifest.kind = "json"
    /\ Len(RootManifest.peerDependencies.entries) = 1
    /\ Len(RootManifest.dependencies.entries) = 2
    /\ RootManifest.dependencies.entries[1].key = <<"b">>
    /\ RootManifest.dependencies.entries[2].key = <<"2">>
    /\ Len(Nodes) = 3
    /\ Nodes[1].type = "peer"
    /\ Nodes[2].label = <<"2">>
    /\ Nodes[3].label = <<"b">>

\* <ownerDir>/node_modules/<name> of a node, ownerDir being the directory of
\* the manifest that declared it
OwnInstall(node) == RootNodeModulesPath(node.workspaceDir, node.label)

\* C13: a root node is expandable exactly when <ownerDir>/node_modules/<name>
\* exists, also when ownerDir is a sub-package of the workspace; otherwise it
\* is a leaf.
C13_ExpandableIffInstalledInOwner ==
    (tPc = "built" /\ tRoots.ok)
        => \A i \in 1..Len(Nodes) :
            /\ Nodes[i].collapsibleState \in {"Collapsed", "None"}
            /\ Nodes[i].collapsibleState = "Collapsed" <=> DirExists(OwnInstall(Nodes[i]))

\* C14: the children of an expanded root are read from
\* <ownerDir>/node_modules/<name>/package.json, never from the installed
\* copy of another directory.
C14_ChildrenFromOwnerCopy ==
    (tPc = "built" /\ tRoots.ok)
        => \A i \in DOMAIN tKids :
            LET own == OwnInstall(Nodes[i])
                children == tKids[i].nodes
            IN  tKids[i].ok =>
                    /\ \A c \in 1..Len(children) : children[c].workspaceDir = own
                    /\ fsManifest[own].kind = "absent" => children = <<>>
                    /\ fsManifest[own].kind = "json" =>
                        Shown(children) =
                            Declared(fsManifest[own].peerDependencies, "peer")
                                \o Declared(fsManifest[own].dependencies, "dep")
                                \o Declared(fsManifest[own].devDependencies, "dev")

\* the nodes of a build, with their order and expandable state
SameNodes(a, b) == a.ok = b.ok /\ a.nodes = b.nodes

Stored(c, key) == key \in DOMAIN c /\ c[key].present

\* a getPackageInfo call starts in this step; the call
CallStarts == Len(rCalls') = Len(rCalls) + 1
NewCall == rCalls'[Len(rCalls')]

\* the request of call i ends in this step
Settles(i) == i \in 1..Len(rCalls) /\ ~rCalls[i].settled /\ rCalls'[i].settled

\* every key but this one has the entry it had
OtherKeysKept(key) ==
    \A k \in DOMAIN cache \ {key} : k \in DOMAIN cache' /\ cache'[k] = cache[k]

OneHour == 60 * 60 * 1000

\* C16: a lookup made less than one hour after the fetch that stored its
\* key returns the stored data without a request; a lookup made when the
\* entry is an hour old or older issues a request, and its success replaces
\* the entry and its timestamp; the entries of other keys stay as they are.
C16_CacheTTL ==
    [][ /\ CallStarts =>
            /\ cache' = cache
            /\ Stored(cache, NewCall.key) =>
                IF now - cache[NewCall.key].timestamp < OneHour
                THEN /\ ~NewCall.requested
                     /\ NewCall.settled
                     /\ NewCall.value = cache[NewCall.key].data
                ELSE NewCall.requested /\ ~NewCall.settled
        /\ \A i \in 1..Len(rCalls) :
            Settles(i) =>
                /\ OtherKeysKept(rCalls[i].key)
                /\ rCalls'[i].outcome = "ok" =>
                    /\ Stored(cache', rCalls[i].key)
                    /\ cache'[rCalls[i].key].data = rCalls'[i].value
                    /\ cache'[rCalls[i].key].timestamp = now
      ]_vars

\* one key was fetched, then served from the cache, then fetched again 61
\* minutes after the first fetch, which replaced its entry
C16_Witness ==
    /\ Len(rCalls) = 3
    /\ rCalls[1].key = rCalls[2].key
    /\ rCalls[2].key = rCalls[3].key
    /\ rCalls[1].requested /\ rCalls[1].outcome = "ok"
    /\ ~rCalls[2].requested /\ rCalls[2].value = RegistryData(rCalls[2].packageName)
    /\ rCalls[3].requested /\ rCalls[3].outcome = "ok"
    /\ Stored(cache, rCalls[3].key)
    /\ cache[rCalls[3].key].timestamp = 2 * OneHour + 61 * 60 * 1000
    /\ now = cache[rCalls[3].key].timestamp

\* C17: a lookup whose request fails (404, another status, a network error,
\* a body that does not parse) returns null and leaves every cache entry as
\* it was, an expired entry of its key included; a 404 shows a warning and
\* every other failure an error; only a successful response stores an entry.
C17_FailureLeavesCache ==
    [][ /\ \A i \in 1..Len(rCalls) :
            (Settles(i) /\ rCalls'[i].outcome # "ok") =>
                /\ rCalls'[i].value = Null
                /\ cache' = cache
                /\ notifications' =
                    Append(notifications,
                           IF rCalls'[i].outcome = "notFound" THEN "warning" ELSE "error")
        /\ \A k \in DOMAIN cache' :
            (Stored(cache', k) /\ (~Stored(cache, k) \/ cache'[k] # cache[k])) =>
                \E i \in 1..Len(rCalls) :
                    Settles(i) /\ rCalls'[i].outcome = "ok" /\ rCalls[i].key = k
      ]_vars

\* a lookup failed with a 404 and another with a network error while the
\* cache held an expired entry of their key, which is still there
C17_Witness ==
    /\ Len(rCalls) = 3
    /\ rCalls[1].outcome = "ok"
    /\ rCalls[2].outcome = "notFound" /\ rCalls[2].value = Null
    /\ rCalls[3].outcome = "networkError" /\ rCalls[3].value = Null
    /\ rCalls[2].key = rCalls[1].key
    /\ rCalls[3].key = rCalls[1].key
    /\ Stored(cache, rCalls[1].key)
    /\ now - cache[rCalls[1].key].timestamp >= OneHour
    /\ notifications = <<"warning", "error">>

(***************************************************************************)
(* Properties of the relevant-manifest policy                              *)
(***************************************************************************)
\* the directory is the workspace root or lies below it
InWorkspace(dir) ==
    /\ Len(dir) >= Len(workspaceRoot.dir)
    /\ SubSeq(dir, 1, Len(workspaceRoot.dir)) = workspaceRoot.dir

\* the directories from dir up to the workspace root, nearest first
Ancestry(dir) ==
    [k \in 1..(Len(dir) - Len(workspaceRoot.dir) + 1) |-> SubSeq(dir, 1, Len(dir) - k + 1)]

\* the evaluation was made for an editor whose file lies inside the workspace
InsideFile(e) == e.file.open /\ InWorkspace(e.file.dir)

\* C18: for an active file inside the workspace root the relevant manifest
\* is that of the nearest directory, from the file's directory up to the
\* workspace root inclusive, that holds a package.json; no directory above
\* the workspace root is examined or returned.
C18_NearestManifestInside ==
    \A n \in 1..Len(vResolutions) :
        LET e == vResolutions[n]
            chain == Ancestry(e.file.dir)
            holders == {k \in 1..Len(chain) : PathExists(chain[k])}
        IN  InsideFile(e) =>
                /\ e.found <=> holders # {}
                /\ e.found =>
                    \E k \in holders :
                        /\ e.dir = chain[k]
                        /\ \A j \in holders : k <= j
                /\ \A x \in 1..Len(e.examined) : InWorkspace(e.examined[x])
                /\ e.found => InWorkspace(e.dir)

\* for a file in the sub-package's src directory the sub-package's manifest
\* was selected although the workspace root and the directory above it hold
\* manifests too
C18_Witness ==
    /\ vResolutions # <<>>
    /\ LET e == vResolutions[Len(vResolutions)]
       IN  /\ e.file = FileIn(SubPackageDir \o <<Seg_src>>)
           /\ e.found
           /\ e.dir = SubPackageDir
           /\ PathExists(TreeRootDir)
           /\ PathExists(<<Seg_h>>)
    /\ \E n \in 1..Len(vResolutions) :
        /\ vResolutions[n].file = FileIn(TreeRootDir \o <<Seg_src>>)
        /\ vResolutions[n].dir = TreeRootDir

\* C19: for an active file that is not in the workspace root directory or
\* below it, and without an active file, the relevant manifest is the
\* workspace root's package.json if it exists and none otherwise; the
\* selected manifest always lies in the workspace root or below it.
C19_OutsideFallsBackToRoot ==
    \A n \in 1..Len(vResolutions) :
        LET e == vResolutions[n]
        IN  /\ ~InsideFile(e) =>
                /\ e.found <=> PathExists(workspaceRoot.dir)
                /\ e.found => e.dir = workspaceRoot.dir
            /\ e.found => InWorkspace(e.dir)

(***************************************************************************)
(* Properties of the document change listener                              *)
(***************************************************************************)
\* an editor change is delivered while the tree view is hidden
HiddenEditorChange == activeFile' # activeFile /\ ~vVisible

\* a step evaluates the relevant manifest only by appending to the record
Evaluates == vResolutions' # vResolutions

\* what an evaluation resolved: the manifest's directory, or nothing
ResolvedPath(e) == [found |-> e.found, dir |-> e.dir]

\* C20 as stated: an editor change while the view is hidden evaluates
\* nothing and refreshes nothing, and over shows, hides and editor changes
\* a refresh is fired only by an evaluation whose path differs from the path
\* the evaluation before it resolved.
C20_RefreshOnlyOnNewPath ==
    /\ [][ /\ HiddenEditorChange => ~Evaluates /\ tFired' = tFired
           /\ tFired' # tFired => Evaluates
         ]_vars
    /\ [](\A n \in 1..Len(vResolutions) :
            vResolutions[n].fired =>
                \/ n = 1
                \/ ResolvedPath(vResolutions[n]) # ResolvedPath(vResolutions[n - 1]))

\* C20 amended: an editor change while the view is hidden evaluates nothing
\* and refreshes nothing; the view becoming visible evaluates and refreshes
\* whenever a manifest is resolved, also when it is the one resolved before
\* the view was hidden; an editor change handled while the view is visible
\* refreshes only when it resolves a manifest that differs from the one the
\* evaluation before it resolved, so consecutive editor changes resolving
\* to one manifest fire at most one refresh.
C20_RefreshOnNewPathOrShow ==
    /\ [][ /\ HiddenEditorChange => ~Evaluates /\ tFired' = tFired
           /\ tFired' # tFired =>
                /\ Evaluates
                /\ tFired' = tFired + 1
                /\ vResolutions'[Len(vResolutions')].fired
         ]_vars
    /\ [](\A n \in 1..Len(vResolutions) :
            LET e == vResolutions[n]
            IN  /\ e.fired => e.found
                /\ e.by = "show" => (e.fired <=> e.found)
                /\ (e.by = "editor" /\ e.fired) =>
                    \/ n = 1
                    \/ ResolvedPath(e) # ResolvedPath(vResolutions[n - 1]))

\* two editor changes resolved the same manifest while the view was
\* visible and only the first refreshed; then the view was hidden and a
\* further editor change was not evaluated
C20_Witness ==
    /\ Len(vResolutions) = 2
    /\ vResolutions[1].by = "editor" /\ vResolutions[1].fired
    /\ vResolutions[2].by = "editor" /\ ~vResolutions[2].fired
    /\ vResolutions[2].found
    /\ vResolutions[2].dir = vResolutions[1].dir
    /\ vResolutions[2].file # vResolutions[1].file
    /\ ~vVisible
    /\ activeFile # vResolutions[2].file
    /\ tFired = 1
    /\ vEvents = 4

(***************************************************************************)
(* Properties of the package search step                                   *)
(***************************************************************************)
Armed == {h \in DOMAIN timers : timers[h].state = "armed"}

\* the pending dispatch, if there is one, is the one the latest input change
\* made, for the value the input has now
OnePending ==
    /\ Cardinality(Armed) <= 1
    /\ \A h \in Armed : timers[h].setBy = qChanges /\ timers[h].value = qValue

\* a search was dispatched for a value that was not blank and that the input
\* kept for the whole interval, and once for one input change
DispatchedAfterQuiet ==
    /\ \A i \in DOMAIN searches :
            /\ searches[i].waited >= DEBOUNCE_MS
            /\ searches[i].changes = searches[i].setBy
            /\ searches[i].input = searches[i].query
            /\ Trim(searches[i].query) # <<>>
    /\ \A i, j \in DOMAIN searches : searches[i].setBy = searches[j].setBy => i = j

\* the value the input ends with, unless blank, gets its search
LastValueSearched ==
    Trim(qValue) # <<>> => \E i \in DOMAIN searches : searches[i].setBy = qChanges

SearchesSettled ==
    /\ searches # <<>>
    /\ Armed = {}
    /\ \A i \in DOMAIN searches :
            searches[i].settled /\ searches[i].outcome # "malformed"

LatestSearch == searches[Len(searches)]

\* C29: once all dispatched searches have settled, the quick pick shows the
\* results of the search dispatched last, or nothing if the input was cleared
\* after that dispatch, whatever the order of input changes and responses.
C29_LatestSearchShown ==
    SearchesSettled =>
        qItems = IF Trim(qValue) = <<>> /\ qChanges > LatestSearch.setBy
                 THEN <<>>
                 ELSE PackageItems(SearchPackages(LatestSearch.query,
                                                  LatestSearch.outcome))

(***************************************************************************)
(* Properties of running a package-manager command                         *)
(***************************************************************************)
PendingTask == task.started /\ task.promise = "pending"
SettledTask == task.started /\ task.promise # "pending"

\* what the caller of executeWithTask does once the promise settled
CallerEffects == <<fPc, fNotices, tFired, tPc>>

\* once settled the promise keeps its state and the caller is not resumed again
SettlesOnce == SettledTask => task'.promise = task.promise /\ UNCHANGED CallerEffects

\* the process ends after the timeout fired
ExitAfterTimeout ==
    /\ task.started /\ task.timer = "fired"
    /\ task.process = "running"
    /\ task'.process = "ended"

\* C22: executeWithTask settles no later than its timeout even if the process
\* never ends, it settles exactly once, and a process exit that arrives after
\* the timeout has no further effect; so every execution eventually completes
\* for the caller.
C22_TaskSettlesByTimeout ==
    /\ [](task.started /\ task.timer = "fired" => SettledTask)
    /\ [][SettlesOnce]_vars
    /\ [][ExitAfterTimeout => task'.promise = task.promise /\ UNCHANGED CallerEffects]_vars
    /\ [](PendingTask => <>SettledTask)

\* the timeout fulfilled the promise while the process ran, and the process
\* ended later with a failure
C22_Witness ==
    /\ task.started
    /\ task.timer = "fired"
    /\ task.promise = "fulfilled"
    /\ task.process = "ended"
    /\ task.exitCode = 1
    /\ fPc = "done"

Succeeded(text) == \E i \in 1..Len(fNotices) : fNotices[i] = Notice("information", text)

ExitedWithZero == task.started /\ task.process = "ended" /\ task.exitCode = 0

\* C23: the 'Successfully installed' or 'Successfully removed' notification is
\* shown only if the command's process ended with exit code 0, whatever the
\* order of the process exit and the timeout.
C23_SuccessMeansExitZero ==
    Succeeded("Successfully installed") \/ Succeeded("Successfully removed")
        => ExitedWithZero

RemoveFailed ==
    /\ flow.kind = "remove"
    /\ task.started /\ task.process = "ended" /\ task.exitCode # 0

FailureShown ==
    \E i \in 1..Len(fNotices) : fNotices[i] = Notice("error", "Failed to remove package")

\* C24: when a remove command ends with a non-zero exit code a failure
\* notification is shown and the tree is not refreshed; the remove flow
\* refreshes the tree only after the command succeeded.
C24_NoRefreshOnFailure ==
    /\ RemoveFailed => FailureShown /\ tFired = 0
    /\ flow.kind = "remove" /\ tFired > 0 => ExitedWithZero

\* the package.json of the node's owning directory declares the package
DeclaredIn(pkg, packageName) ==
    /\ pkg.kind = "json"
    /\ \E group \in {pkg.dependencies, pkg.devDependencies, pkg.peerDependencies} :
            /\ group.present
            /\ \E i \in 1..Len(group.entries) : group.entries[i].key = packageName

\* C27: a remove command is executed only if the user answered 'Yes' and the
\* package.json of the node's owning directory exists and declares the package
\* in dependencies, devDependencies or peerDependencies; the command that runs
\* has the node's owning directory as its working directory.
C27_RemoveOnlyConfirmedAndDeclared ==
    flow.kind = "remove" /\ task.started =>
        /\ flow.answer = "Yes"
        /\ DeclaredIn(fsManifest[flow.dir.dir], flow.label)
        /\ task.cwd = flow.dir.dir

(***************************************************************************)
(* Properties of the tree over manifests that cannot be used               *)
(***************************************************************************)
\* the manifest in dir is missing, unreadable or not valid JSON
Unusable(dir) == fsManifest[dir].kind # "json"

\* a call of getChildren that settled with the empty list
EmptyList(r) == r.ok /\ r.nodes = <<>>

\* C25: building the tree from a manifest that is missing, unreadable or not
\* valid JSON yields an empty node list and never fails, for the roots and
\* for an expanded node: getChildren resolves to [] and does not reject.
C25_UnusableManifestYieldsEmpty ==
    /\ tPc = "built" =>
            LET relevant == GetRelevantPackageJsonPath(activeFile)
            IN  /\ tRoots.ok
                /\ relevant.found /\ Unusable(relevant.dir) => EmptyList(tRoots)
    /\ \A i \in DOMAIN tKids :
            /\ tKids[i].ok
            /\ Unusable(RootNodeModulesPath(workspaceRoot.dir, tRoots.nodes[i].label))
                    => EmptyList(tKids[i])

(***************************************************************************)
(* Properties of resolving a tooltip                                       *)
(***************************************************************************)
\* getLocalPackageInfo resolved with null: resolveTreeItem (lines 809-825)
\* returns the item with its tooltip left unset
TooltipUnset == lPc = "done" /\ lResult.source = "null"

\* C26: resolving a tooltip never shows an error or warning notification: when
\* neither a local manifest nor the registry (404 and network failure included)
\* yields metadata, the item is returned without tooltip and nothing is shown.
C26_TooltipMissIsSilent == TooltipUnset => notifications = <<>>

(***************************************************************************)
(* Properties of the displayed tree                                        *)
(***************************************************************************)
\* the last event handled was a change of the active editor, handled while
\* the view was visible, and the host has asked for whatever it had to
EditorChangeDisplayed ==
    /\ vVisible
    /\ vResolutions # <<>>
    /\ vResolutions[Len(vResolutions)].by = "editor"
    /\ tPc = "built"

\* the nodes of the manifest that is relevant now; none without one
RelevantNodes ==
    LET relevant == GetRelevantPackageJsonPath(activeFile)
    IN  IF relevant.found
        THEN ManifestNodes(fsManifest[relevant.dir], relevant.dir)
        ELSE <<>>

\* C28: after an active-editor change handled while the view is visible, the
\* tree displayed is that of the manifest relevant now; when the editor moved
\* to a context without any relevant manifest the tree is empty and does not
\* keep the nodes of the previous manifest.
C28_DisplayedTreeIsRelevant == EditorChangeDisplayed => tRoots.nodes = RelevantNodes

(***************************************************************************)
(* getPackageDirectory against getRelevantPackageJsonPath                  *)
(***************************************************************************)
\* installPackage has called getPackageDirectory: flow.dir is what it returned
DirectoryAsked == flow.kind = "install" /\ fPc # "start"

\* the directory returned is that of the relevant manifest, and null exactly
\* when there is none
SameDirectory ==
    LET relevant == GetRelevantPackageJsonPath(activeFile)
    IN  /\ flow.dir.found = relevant.found
        /\ flow.dir.found => flow.dir.dir = relevant.dir

====
